---- MODULE Spec2Model ----
(***************************************************************************)
(* Model of the SharePoint scraper.                                        *)
(*   - the navigation pipeline                                             *)
(*       get_navbar_items -> flatten_items -> update_url                   *)
(*       -> get_pages_to_scrape                                            *)
(*     (src/src/scraper/navbar_parser.py, src/src/scraper/navbar_helpers.py)*)
(*   - the functions of the scripts under src/scripts, each under a        *)
(*     specification of its own; the variables of the other components     *)
(*     stay at their idle values there.                                    *)
(* Strings are TLA+ strings; Len, SubSeq and \o act on them character by   *)
(* character, so prefix and suffix tests are computed as Python computes   *)
(* them.                                                                   *)
(***************************************************************************)
EXTENDS Integers, Sequences, FiniteSets, TLC

VARIABLES
    quick_launch_data,  \* the raw "quickLaunch" list handed to get_navbar_items
    site_slug,          \* the target site's slug
    navbar_items,       \* result of get_navbar_items (hierarchical NavbarItem list)
    processed_items,    \* the flat list built and then mutated by process_navbar_items
    pages_to_scrape,    \* result of get_pages_to_scrape
    raised,             \* exception that escaped, "none" when none did
    pc,                 \* position in the pipeline
    \* all-sites.py: should_process_site
    sp_fs,              \* the paths that exist on disk
    sp_site,            \* site_slug argument
    sp_force,           \* force_option argument
    sp_step,            \* step argument
    sp_result,          \* value returned
    sp_pc,
    \* scrape-site.py: get_page_filename
    fn_url,             \* url argument
    fn_name,            \* value returned
    fn_lookup,          \* the file name the sitemap generator looks up for fn_url
    fn_pc,
    \* navbar_parser.py: get_quick_launch_data, called for two documents
    ql_soup,            \* per call, the script elements of the document
    ql_outcome,         \* per call: pending, raised or returned
    \* generate-sitemap.py: render_pages, generate_full_sitemap
    sm_navbar,          \* the entries of navbar_links.json
    sm_items,           \* render_items, the list convert_to_render_items built
    sm_pages,           \* pages directory: file name -> parsed page, or None
    sm_rendered,        \* value returned by render_pages
    sm_sitemap,         \* value returned by generate_full_sitemap
    sm_pc,
    \* scrape-site.py main / all-sites.py scrape_site_internal: one site's run
    sr_caller,          \* which of the two scripts runs the steps
    sr_force,           \* --force / scrape_force
    sr_site_doc,        \* script elements of the page the site serves as its index
    sr_dirs,            \* directories on disk
    sr_files,           \* files on disk: path -> content
    sr_written,         \* paths written by this run, in order
    sr_requests,        \* urls given to page.goto by this run, in order
    sr_html,            \* html_content returned by scrape_index_page
    sr_flattened,       \* flatten_items has been called
    sr_navbar,          \* navbar_items returned by extract_navbar_links
    sr_worklist,        \* pages_to_scrape of scrape_individual_pages
    sr_i,               \* position of its loop
    sr_raised,          \* exception that ended the run, "none" when none did
    sr_pc,
    \* all-sites.py: main
    bt_sites,           \* the site slugs of SITES.txt, in order
    bt_dry_run,         \* --dry-run
    bt_force,           \* --force
    bt_fs,              \* the paths that exist on disk
    bt_browser,         \* "none", "launched" or "closed"
    bt_requests,        \* urls given to page.goto, in order
    bt_written,         \* paths created or written
    bt_commands,        \* sub-commands executed, in order
    bt_results,         \* what each pass of the loop put in all_results
    bt_i,               \* position of the loop in the sites list
    bt_run,             \* "first" for a run, "later" for the run after it
    bt_earlier,         \* bt_results of the first run, in the later run
    bt_pc

nav_vars == <<quick_launch_data, site_slug, navbar_items, processed_items,
              pages_to_scrape, raised, pc>>

sp_vars == <<sp_fs, sp_site, sp_force, sp_step, sp_result, sp_pc>>

fn_vars == <<fn_url, fn_name, fn_lookup, fn_pc>>

ql_vars == <<ql_soup, ql_outcome>>

sm_vars == <<sm_navbar, sm_items, sm_pages, sm_rendered, sm_sitemap, sm_pc>>

bt_vars == <<bt_sites, bt_dry_run, bt_force, bt_fs, bt_browser, bt_requests,
             bt_written, bt_commands, bt_results, bt_i, bt_run, bt_earlier,
             bt_pc>>

sr_vars == <<sr_caller, sr_force, sr_site_doc, sr_dirs, sr_files, sr_written,
             sr_requests, sr_html, sr_flattened, sr_navbar, sr_worklist, sr_i,
             sr_raised, sr_pc>>

vars == <<nav_vars, sp_vars, fn_vars, ql_vars, sm_vars, sr_vars, bt_vars>>

-----------------------------------------------------------------------------
(* Values *)

\* Python's None where a string is expected (Title, Url, IsExternal, url).
None == "<None>"

\* Python's None as an element of a NavbarItem children list.
NoneItem == [is_none |-> TRUE]

SITE_ROOT == "https://uob.sharepoint.com"

LINKLESS == "http://linkless.header/"

block_pages == <<"AllItems.aspx", "admin-centre.aspx", "news.aspx">>

block_urls == {LINKLESS}

-----------------------------------------------------------------------------
(* Idle values: a component that takes no part in a specification *)

\* Every component but the named one is idle.
OthersIdle(component) ==
    /\ IF component = "nav" THEN TRUE
       ELSE /\ quick_launch_data = <<>>
            /\ site_slug = ""
            /\ navbar_items = <<>>
            /\ processed_items = <<>>
            /\ pages_to_scrape = <<>>
            /\ raised = "none"
            /\ pc = "idle"
    /\ IF component = "sp" THEN TRUE
       ELSE /\ sp_fs = {}
            /\ sp_site = ""
            /\ sp_force = None
            /\ sp_step = ""
            /\ sp_result = FALSE
            /\ sp_pc = "idle"
    /\ IF component = "fn" THEN TRUE
       ELSE /\ fn_url = ""
            /\ fn_name = ""
            /\ fn_lookup = ""
            /\ fn_pc = "idle"
    /\ IF component = "ql" THEN TRUE
       ELSE /\ ql_soup = <<>>
            /\ ql_outcome = <<>>
    /\ IF component = "sm" THEN TRUE
       ELSE /\ sm_navbar = <<>>
            /\ sm_items = <<>>
            /\ sm_pages = <<>>
            /\ sm_rendered = <<>>
            /\ sm_sitemap = ""
            /\ sm_pc = "idle"
    /\ IF component = "sr" THEN TRUE
       ELSE /\ sr_caller = ""
            /\ sr_force = FALSE
            /\ sr_site_doc = <<>>
            /\ sr_dirs = {}
            /\ sr_files = <<>>
            /\ sr_written = <<>>
            /\ sr_requests = <<>>
            /\ sr_html = <<>>
            /\ sr_flattened = FALSE
            /\ sr_navbar = <<>>
            /\ sr_worklist = <<>>
            /\ sr_i = 0
            /\ sr_raised = "none"
            /\ sr_pc = "idle"
    /\ IF component = "bt" THEN TRUE
       ELSE /\ bt_sites = <<>>
            /\ bt_dry_run = FALSE
            /\ bt_force = None
            /\ bt_fs = {}
            /\ bt_browser = "none"
            /\ bt_requests = <<>>
            /\ bt_written = {}
            /\ bt_commands = <<>>
            /\ bt_results = <<>>
            /\ bt_i = 0
            /\ bt_run = ""
            /\ bt_earlier = <<>>
            /\ bt_pc = "idle"

-----------------------------------------------------------------------------
(* Bounds *)

\* Largest number of raw nodes in a payload of the structural family.
MaxNodes == 4

\* Largest number of raw nodes in a payload of the URL family.
MaxUrlNodes == 2

\* Longest list handed directly to get_pages_to_scrape.
MaxEntries == 2

-----------------------------------------------------------------------------
(* String helpers *)

\* str.startswith
StartsWith(s, p) == Len(s) >= Len(p) /\ SubSeq(s, 1, Len(p)) = p

\* str.endswith
EndsWith(s, p) == Len(s) >= Len(p) /\ SubSeq(s, Len(s) - Len(p) + 1, Len(s)) = p

UpperChars == "ABCDEFGHIJKLMNOPQRSTUVWXYZ"

LowerChars == "abcdefghijklmnopqrstuvwxyz"

DigitChars == "0123456789"

CharIn(c, s) == \E i \in 1..Len(s) : SubSeq(s, i, i) = c

\* c lower-cased when it is an ASCII letter or digit, "-" otherwise.
SlugChar(c) ==
    IF CharIn(c, UpperChars)
    THEN LET i == CHOOSE j \in 1..Len(UpperChars) : SubSeq(UpperChars, j, j) = c
         IN  SubSeq(LowerChars, i, i)
    ELSE IF CharIn(c, LowerChars) \/ CharIn(c, DigitChars) THEN c ELSE "-"

RECURSIVE SlugFrom(_, _, _)
\* Characters i.. of s appended to acc, runs of separators collapsed to one "-"
\* and none kept at the start.
SlugFrom(s, i, acc) ==
    IF i > Len(s) THEN acc
    ELSE LET c == SlugChar(SubSeq(s, i, i))
         IN  IF c = "-" /\ (acc = "" \/ EndsWith(acc, "-"))
             THEN SlugFrom(s, i + 1, acc)
             ELSE SlugFrom(s, i + 1, acc \o c)

\* slugify(title) on ASCII titles: lower case, separator runs collapsed, trimmed.
Slugify(title) ==
    LET raw == SlugFrom(title, 1, "")
    IN  IF EndsWith(raw, "-") /\ Len(raw) > 0 THEN SubSeq(raw, 1, Len(raw) - 1) ELSE raw

-----------------------------------------------------------------------------
(* Inputs *)

\* A raw node as SharePoint embeds it: "Title", "Url" and "Children" are
\* always present (Title and Url possibly null); link.has_ext tells whether
\* the "IsExternal" key is present.
RawNode(title, link, children) ==
    IF link.has_ext
    THEN [Title |-> title, Url |-> link.url, IsExternal |-> link.ext, Children |-> children]
    ELSE [Title |-> title, Url |-> link.url, Children |-> children]

Link(url, has_ext, ext) == [url |-> url, has_ext |-> has_ext, ext |-> ext]

StructTitles == {None, "Home", "About Us"}

StructLinks == { Link("/sites/acme/about.aspx", TRUE, "False") }

UrlTitles == {"Home"}

UrlLinks ==
    { Link(None, FALSE, None),
      Link("", TRUE, "False"),
      Link("/sites/acme/", TRUE, "False"),
      Link("/sites/acme/about.aspx", TRUE, "False"),
      Link("/sites/acme/news.aspx", TRUE, "False"),
      Link("/sites/acme/Lists/AllItems.aspx", TRUE, "False"),
      Link("/sites/acme/admin-centre.aspx", TRUE, None),
      Link("/sites/acme2/page.aspx", TRUE, "False"),
      Link("/sites/other/about.aspx", TRUE, "False"),
      Link("/sites/other/news.aspx", TRUE, "True"),
      Link("https://example.org/page.aspx", TRUE, "True"),
      Link(LINKLESS, FALSE, None) }

Slugs == {"acme", "other"}

RECURSIVE Forests(_, _, _)
\* Every ordered forest of exactly n raw nodes.
Forests(n, titles, links) ==
    IF n = 0 THEN {<<>>}
    ELSE UNION { { <<RawNode(t, l, cs)>> \o rest :
                     t \in titles, l \in links,
                     cs \in Forests(k - 1, titles, links),
                     rest \in Forests(n - k, titles, links) } : k \in 1..n }

StructPayloads == UNION { Forests(n, StructTitles, StructLinks) : n \in 0..MaxNodes }

UrlPayloads == UNION { Forests(n, UrlTitles, UrlLinks) : n \in 0..MaxUrlNodes }

Payloads == StructPayloads \cup UrlPayloads

-----------------------------------------------------------------------------
(* navbar_parser.py *)

RECURSIVE extract_same_level(_, _)
\* Variant: the children are extracted at the level of their parent.
extract_same_level(item, base_level) ==
    IF item.Title = None THEN NoneItem
    ELSE [ title       |-> item.Title,
           url         |-> item.Url,
           is_external |-> IF "IsExternal" \in DOMAIN item THEN item.IsExternal ELSE None,
           base_level  |-> base_level,
           children    |-> [ i \in DOMAIN item.Children |->
                               extract_same_level(item.Children[i], base_level) ] ]

RECURSIVE extract_keep_titleless(_, _)
\* Variant: a node without a title is converted like any other node.
extract_keep_titleless(item, base_level) ==
    [ title       |-> item.Title,
      url         |-> item.Url,
      is_external |-> IF "IsExternal" \in DOMAIN item THEN item.IsExternal ELSE None,
      base_level  |-> base_level,
      children    |-> [ i \in DOMAIN item.Children |->
                          extract_keep_titleless(item.Children[i], base_level + 1) ] ]

RECURSIVE extract_navbar_item(_, _)
extract_navbar_item(item, base_level) ==
    IF item.Title = None THEN NoneItem
    ELSE [ title       |-> item.Title,
           url         |-> item.Url,
           is_external |-> IF "IsExternal" \in DOMAIN item THEN item.IsExternal ELSE None,
           base_level  |-> base_level,
           children    |-> [ i \in DOMAIN item.Children |->
                               extract_navbar_item(item.Children[i], base_level + 1) ] ]

\* filter of a sequence, order kept
RECURSIVE NotNone(_)
NotNone(items) ==
    IF items = <<>> THEN <<>>
    ELSE IF Head(items) = NoneItem THEN NotNone(Tail(items))
         ELSE <<Head(items)>> \o NotNone(Tail(items))

RECURSIVE get_navbar_items_promote(_, _)
\* Variant: the children of a titleless node take its place, one level down.
get_navbar_items_promote(data, base_level) ==
    IF data = <<>> THEN <<>>
    ELSE (IF Head(data).Title = None
          THEN get_navbar_items_promote(Head(data).Children, base_level + 1)
          ELSE <<extract_navbar_item(Head(data), base_level)>>)
         \o get_navbar_items_promote(Tail(data), base_level)

get_navbar_items(data, base_level) ==
    NotNone([ i \in DOMAIN data |-> extract_navbar_item(data[i], base_level) ])

-----------------------------------------------------------------------------
(* navbar_helpers.py: flatten_items *)

Parent(item) ==
    [ title             |-> item.title,
      slug              |-> Slugify(item.title),
      base_url          |-> item.url,
      url               |-> item.url,
      is_external       |-> item.is_external,
      base_level        |-> item.base_level,
      scrape            |-> FALSE,
      should_be_scraped |-> FALSE,
      level             |-> item.base_level + 1 ]

RECURSIVE TransformRaises(_)
\* _transform subscripts its argument: on None that is a TypeError.
TransformRaises(item) ==
    \/ item = NoneItem
    \/ /\ item # NoneItem
       /\ \E i \in DOMAIN item.children : TransformRaises(item.children[i])

RECURSIVE Transform(_)
RECURSIVE TransformAll(_)
\* _transform followed by flatten_deep: the parent's entry, then the
\* flattened results of its children in order.
Transform(item) == <<Parent(item)>> \o TransformAll(item.children)

TransformAll(items) ==
    IF items = <<>> THEN <<>>
    ELSE Transform(Head(items)) \o TransformAll(Tail(items))

flatten_raises(items) == \E i \in DOMAIN items : TransformRaises(items[i])

RECURSIVE TransformChildrenFirst(_)
\* Variant: the entries of the children come before the entry of their parent.
TransformChildrenFirst(items) ==
    IF items = <<>> THEN <<>>
    ELSE TransformChildrenFirst(Head(items).children) \o <<Parent(Head(items))>>
         \o TransformChildrenFirst(Tail(items))

flatten_items_children_first(items) == TransformChildrenFirst(items)

flatten_items(items) == TransformAll(items)

-----------------------------------------------------------------------------
(* navbar_helpers.py: update_url *)

\* py_.chain(block_pages).map(...).some()
in_block_pages(item) ==
    \E i \in DOMAIN block_pages :
        item.base_url # None /\ EndsWith(item.base_url, block_pages[i])

\* Variant: the exclusion list is applied before the inclusion rule.
update_url_item_block_first(item, slug) ==
    IF item.base_url = None THEN item
    ELSE LET a == IF StartsWith(item.base_url, "/sites/")
                  THEN [item EXCEPT !.url = SITE_ROOT \o item.base_url]
                  ELSE item
             b == IF in_block_pages(a)
                  THEN [a EXCEPT !.scrape = FALSE, !.should_be_scraped = FALSE]
                  ELSE a
             c == IF StartsWith(b.base_url, "/sites/" \o slug) /\ EndsWith(b.base_url, ".aspx")
                  THEN [b EXCEPT !.scrape = TRUE, !.should_be_scraped = TRUE]
                  ELSE b
         IN  IF c.base_url \in block_urls THEN [c EXCEPT !.url = None] ELSE c

\* Variant: the link-less sentinel is not handled.
update_url_item_no_linkless(item, slug) ==
    IF item.base_url = None THEN item
    ELSE LET a == IF StartsWith(item.base_url, "/sites/")
                  THEN [item EXCEPT !.url = SITE_ROOT \o item.base_url]
                  ELSE item
             b == IF StartsWith(a.base_url, "/sites/" \o slug) /\ EndsWith(a.base_url, ".aspx")
                  THEN [a EXCEPT !.scrape = TRUE, !.should_be_scraped = TRUE]
                  ELSE a
         IN  IF in_block_pages(b)
             THEN [b EXCEPT !.scrape = FALSE, !.should_be_scraped = FALSE]
             ELSE b

\* Variant: only a base_url under the target site is made absolute.
update_url_item_target_only(item, slug) ==
    IF item.base_url = None THEN item
    ELSE LET a == IF StartsWith(item.base_url, "/sites/" \o slug)
                  THEN [item EXCEPT !.url = SITE_ROOT \o item.base_url]
                  ELSE item
             b == IF StartsWith(a.base_url, "/sites/" \o slug) /\ EndsWith(a.base_url, ".aspx")
                  THEN [a EXCEPT !.scrape = TRUE, !.should_be_scraped = TRUE]
                  ELSE a
             c == IF in_block_pages(b)
                  THEN [b EXCEPT !.scrape = FALSE, !.should_be_scraped = FALSE]
                  ELSE b
         IN  IF c.base_url \in block_urls THEN [c EXCEPT !.url = None] ELSE c

\* Variant: every .aspx page of any site collection is marked for scraping.
update_url_item_any_site(item, slug) ==
    IF item.base_url = None THEN item
    ELSE LET a == IF StartsWith(item.base_url, "/sites/")
                  THEN [item EXCEPT !.url = SITE_ROOT \o item.base_url]
                  ELSE item
             b == IF StartsWith(a.base_url, "/sites/") /\ EndsWith(a.base_url, ".aspx")
                  THEN [a EXCEPT !.scrape = TRUE, !.should_be_scraped = TRUE]
                  ELSE a
             c == IF in_block_pages(b)
                  THEN [b EXCEPT !.scrape = FALSE, !.should_be_scraped = FALSE]
                  ELSE b
         IN  IF c.base_url \in block_urls THEN [c EXCEPT !.url = None] ELSE c

\* Variant: the absolute address is written to base_url as well.
update_url_item_rebase(item, slug) ==
    IF item.base_url = None THEN item
    ELSE LET a == IF StartsWith(item.base_url, "/sites/")
                  THEN [item EXCEPT !.url = SITE_ROOT \o item.base_url,
                                    !.base_url = SITE_ROOT \o item.base_url]
                  ELSE item
             b == IF StartsWith(item.base_url, "/sites/" \o slug) /\ EndsWith(item.base_url, ".aspx")
                  THEN [a EXCEPT !.scrape = TRUE, !.should_be_scraped = TRUE]
                  ELSE a
             c == IF in_block_pages(item)
                  THEN [b EXCEPT !.scrape = FALSE, !.should_be_scraped = FALSE]
                  ELSE b
         IN  IF item.base_url \in block_urls THEN [c EXCEPT !.url = None] ELSE c

\* Variant: inclusion sets scrape alone, should_be_scraped keeps its value.
update_url_item_scrape_only(item, slug) ==
    IF item.base_url = None THEN item
    ELSE LET a == IF StartsWith(item.base_url, "/sites/")
                  THEN [item EXCEPT !.url = SITE_ROOT \o item.base_url]
                  ELSE item
             b == IF StartsWith(a.base_url, "/sites/" \o slug) /\ EndsWith(a.base_url, ".aspx")
                  THEN [a EXCEPT !.scrape = TRUE]
                  ELSE a
             c == IF in_block_pages(b)
                  THEN [b EXCEPT !.scrape = FALSE, !.should_be_scraped = FALSE]
                  ELSE b
         IN  IF c.base_url \in block_urls THEN [c EXCEPT !.url = None] ELSE c

\* One pass of the loop body: the overwrites in the order the code makes them.
update_url_item(item, slug) ==
    IF item.base_url = None THEN item
    ELSE LET a == IF StartsWith(item.base_url, "/sites/")
                  THEN [item EXCEPT !.url = SITE_ROOT \o item.base_url]
                  ELSE item
             b == IF StartsWith(a.base_url, "/sites/" \o slug) /\ EndsWith(a.base_url, ".aspx")
                  THEN [a EXCEPT !.scrape = TRUE, !.should_be_scraped = TRUE]
                  ELSE a
             c == IF in_block_pages(b)
                  THEN [b EXCEPT !.scrape = FALSE, !.should_be_scraped = FALSE]
                  ELSE b
         IN  IF c.base_url \in block_urls THEN [c EXCEPT !.url = None] ELSE c

update_url(items, slug) == [ i \in DOMAIN items |-> update_url_item(items[i], slug) ]

-----------------------------------------------------------------------------
(* navbar_helpers.py: get_pages_to_scrape *)

\* dict.get(key, default)
Get(item, key, default) == IF key \in DOMAIN item THEN item[key] ELSE default

\* Truth value of an Optional[str]: None and "" are false.
Truthy(s) == s # None /\ s # ""

ShouldScrape(item) == Get(item, "scrape", FALSE) /\ Truthy(Get(item, "url", None))

\* Variant: the url is not looked at.
ScrapeFlagOnly(item) == Get(item, "scrape", FALSE)

get_pages_scrape_flag_only(items) == SelectSeq(items, ScrapeFlagOnly)

get_pages_to_scrape(items) == SelectSeq(items, ShouldScrape)

-----------------------------------------------------------------------------
(* Pipeline *)

Init ==
    /\ quick_launch_data \in Payloads
    /\ site_slug \in Slugs
    /\ navbar_items = <<>>
    /\ processed_items = <<>>
    /\ pages_to_scrape = <<>>
    /\ raised = "none"
    /\ pc = "start"
    /\ OthersIdle("nav")

GetNavbarItems ==
    /\ pc = "start"
    /\ navbar_items' = get_navbar_items(quick_launch_data, 0)
    /\ pc' = "extracted"
    /\ UNCHANGED <<quick_launch_data, site_slug, processed_items, pages_to_scrape, raised>>
    /\ UNCHANGED <<sp_vars, fn_vars, ql_vars, sm_vars, sr_vars, bt_vars>>

FlattenItems ==
    /\ pc = "extracted"
    /\ IF flatten_raises(navbar_items)
       THEN /\ raised' = "TypeError"
            /\ pc' = "raised"
            /\ UNCHANGED processed_items
       ELSE /\ processed_items' = flatten_items(navbar_items)
            /\ pc' = "flattened"
            /\ UNCHANGED raised
    /\ UNCHANGED <<quick_launch_data, site_slug, navbar_items, pages_to_scrape>>
    /\ UNCHANGED <<sp_vars, fn_vars, ql_vars, sm_vars, sr_vars, bt_vars>>

UpdateUrl ==
    /\ pc = "flattened"
    /\ processed_items' = update_url(processed_items, site_slug)
    /\ pc' = "processed"
    /\ UNCHANGED <<quick_launch_data, site_slug, navbar_items, pages_to_scrape, raised>>
    /\ UNCHANGED <<sp_vars, fn_vars, ql_vars, sm_vars, sr_vars, bt_vars>>

GetPagesToScrape ==
    /\ pc = "processed"
    /\ pages_to_scrape' = get_pages_to_scrape(processed_items)
    /\ pc' = "selected"
    /\ UNCHANGED <<quick_launch_data, site_slug, navbar_items, processed_items, raised>>
    /\ UNCHANGED <<sp_vars, fn_vars, ql_vars, sm_vars, sr_vars, bt_vars>>

Next == GetNavbarItems \/ FlattenItems \/ UpdateUrl \/ GetPagesToScrape

Spec == Init /\ [][Next]_vars

-----------------------------------------------------------------------------
(* get_pages_to_scrape applied to an arbitrary list of flat entries *)

EntryTitles == {"Home", "About Us"}

EntryUrls == {None, "", SITE_ROOT \o "/sites/acme/about.aspx"}

Entry(title, url) ==
    [ title             |-> title,
      slug              |-> Slugify(title),
      base_url          |-> url,
      url               |-> url,
      is_external       |-> "False",
      base_level        |-> 0,
      should_be_scraped |-> FALSE,
      level             |-> 1 ]

\* Flat entries with scrape True, scrape False, or no "scrape" key at all.
FlatEntries ==
    { Entry(t, u) @@ [scrape |-> b] : t \in EntryTitles, u \in EntryUrls, b \in BOOLEAN }
      \cup { Entry(t, u) : t \in EntryTitles, u \in EntryUrls }

EntryLists == UNION { [1..n -> FlatEntries] : n \in 0..MaxEntries }

InitSelect ==
    /\ quick_launch_data = <<>>
    /\ site_slug \in Slugs
    /\ navbar_items = <<>>
    /\ processed_items \in EntryLists
    /\ pages_to_scrape = <<>>
    /\ raised = "none"
    /\ pc = "processed"
    /\ OthersIdle("nav")

NextSelect == GetPagesToScrape

SpecSelect == InitSelect /\ [][NextSelect]_vars

-----------------------------------------------------------------------------
(* Paths: a node of a forest is named by the sequence of child indexes that *)
(* leads to it; its nesting depth is the length of that sequence minus 1.   *)

RECURSIVE RawPaths(_, _)
RawPaths(nodes, prefix) ==
    UNION { {prefix \o <<i>>} \cup RawPaths(nodes[i].Children, prefix \o <<i>>) :
              i \in DOMAIN nodes }

RECURSIVE RawAt(_, _)
RawAt(nodes, p) ==
    IF Len(p) = 1 THEN nodes[p[1]] ELSE RawAt(nodes[p[1]].Children, Tail(p))

RECURSIVE ItemPaths(_, _)
ItemPaths(items, prefix) ==
    UNION { {prefix \o <<i>>} \cup
              (IF items[i] = NoneItem THEN {}
               ELSE ItemPaths(items[i].children, prefix \o <<i>>)) :
              i \in DOMAIN items }

RECURSIVE ItemAt(_, _)
ItemAt(items, p) ==
    IF Len(p) = 1 THEN items[p[1]] ELSE ItemAt(items[p[1]].children, Tail(p))

IsPrefix(p, q) == Len(p) <= Len(q) /\ SubSeq(q, 1, Len(p)) = p

\* p comes before q in pre-order: p is a proper ancestor of q, or at the
\* first index where they differ p takes the earlier sibling.
Before(p, q) ==
    \/ IsPrefix(p, q) /\ p # q
    \/ \E k \in 1..Len(p) :
          /\ k <= Len(q)
          /\ SubSeq(p, 1, k - 1) = SubSeq(q, 1, k - 1)
          /\ p[k] < q[k]

\* 1-based position of p in the pre-order listing of the set of paths P.
Rank(p, P) == Cardinality({ q \in P : Before(q, p) }) + 1

AllRawPaths == RawPaths(quick_launch_data, <<>>)

\* Titled itself and under titled ancestors only.
Surviving(p) ==
    \A k \in 1..Len(p) : RawAt(quick_launch_data, SubSeq(p, 1, k)).Title # None

SurvivingPaths == { p \in AllRawPaths : Surviving(p) }

Titleless == { p \in AllRawPaths : RawAt(quick_launch_data, p).Title = None }

\* The flat list exists: flatten_items returned.
Flattened == pc \in {"flattened", "processed", "selected"}

\* update_url returned.
Resolved == pc \in {"processed", "selected"}

-----------------------------------------------------------------------------
(* C1: for a tree of titled navigation nodes, flatten_items returns the     *)
(* pre-order traversal: exactly one entry per node, the entry of the node   *)
(* at path p standing at p's pre-order position (so a parent is directly    *)
(* followed by its whole subtree and siblings keep their order).            *)
C1_PreOrder ==
    pc = "flattened" =>
        LET P == ItemPaths(navbar_items, <<>>)
        IN  /\ Len(processed_items) = Cardinality(P)
            /\ \A p \in P :
                 LET e == processed_items[Rank(p, P)]
                     n == ItemAt(navbar_items, p)
                 IN  /\ e.title = n.title
                     /\ e.base_url = n.url
                     /\ e.url = n.url
                     /\ e.is_external = n.is_external
                     /\ e.base_level = n.base_level

\* A parent with a child, followed by a sibling of the parent, all different.
C1_Witness ==
    /\ pc = "flattened"
    /\ Len(navbar_items) = 2
    /\ Len(navbar_items[1].children) = 1
    /\ Len(processed_items) = 3
    /\ processed_items[1].title # processed_items[2].title
    /\ processed_items[2].title # processed_items[3].title

(* C2: every entry of the flat list has level = base_level + 1, and         *)
(* base_level is the nesting depth of the raw node it comes from (0 at the  *)
(* top level, one more per nesting level).                                  *)
C2_HeadingLevel ==
    Resolved =>
        /\ \A i \in DOMAIN processed_items :
             processed_items[i].level = processed_items[i].base_level + 1
        /\ \A p \in SurvivingPaths :
             LET i == Rank(p, SurvivingPaths)
             IN  /\ i \in DOMAIN processed_items
                 /\ processed_items[i].title = RawAt(quick_launch_data, p).Title
                 /\ processed_items[i].base_level = Len(p) - 1

\* A list with an entry from depth 2 (level 3).
C2_Witness ==
    /\ Resolved
    /\ \E i \in DOMAIN processed_items : processed_items[i].base_level = 2

(* C3: the flat list holds no entry for a node whose Title is null nor for  *)
(* a descendant of one: its entries are, one for one and in order, the      *)
(* nodes that are titled and have only titled ancestors.                    *)
C3_TitleLoss ==
    Resolved =>
        /\ Len(processed_items) = Cardinality(SurvivingPaths)
        /\ \A p \in SurvivingPaths :
             LET e == processed_items[Rank(p, SurvivingPaths)]
                 n == RawAt(quick_launch_data, p)
             IN  e.title = n.Title /\ e.base_url = n.Url
        /\ \A i \in DOMAIN processed_items : processed_items[i].title # None

\* A titleless node with a titled child beside a titled node: one entry.
C3_Witness ==
    /\ Resolved
    /\ \E p \in Titleless : p \o <<1>> \in AllRawPaths
                            /\ RawAt(quick_launch_data, p \o <<1>>).Title # None
    /\ Len(processed_items) = 1
    /\ Cardinality(AllRawPaths) = 3

(* C4: a node with a null title is non-fatal wherever it occurs: the        *)
(* pipeline never raises.                                                   *)
C4_NullTitleNonFatal == Titleless # {} => raised = "none"

\* base_url matches the content-page pattern of the target site.
IncludedByPattern(e) ==
    /\ e.base_url # None
    /\ StartsWith(e.base_url, "/sites/" \o site_slug)
    /\ EndsWith(e.base_url, ".aspx")

\* base_url ends with one of the exclusion names.
Excluded(e) ==
    /\ e.base_url # None
    /\ \/ EndsWith(e.base_url, "AllItems.aspx")
       \/ EndsWith(e.base_url, "admin-centre.aspx")
       \/ EndsWith(e.base_url, "news.aspx")

(* C5: exclusion wins over inclusion: after update_url an entry whose       *)
(* base_url lies under the target site, ends with ".aspx" and ends with an  *)
(* exclusion name has scrape and should_be_scraped false.                   *)
C5_ExclusionWins ==
    Resolved =>
        \A i \in DOMAIN processed_items :
            LET e == processed_items[i]
            IN  IncludedByPattern(e) /\ Excluded(e) =>
                    e.scrape = FALSE /\ e.should_be_scraped = FALSE

C5_Witness ==
    /\ Resolved
    /\ \E i \in DOMAIN processed_items :
          /\ IncludedByPattern(processed_items[i])
          /\ Excluded(processed_items[i])

(* C6: after update_url an entry whose base_url is the link-less sentinel   *)
(* has url null.                                                            *)
C6_LinklessNull ==
    Resolved =>
        \A i \in DOMAIN processed_items :
            processed_items[i].base_url = "http://linkless.header/" =>
                processed_items[i].url = None

C6_Witness ==
    /\ Resolved
    /\ \E i \in DOMAIN processed_items :
          processed_items[i].base_url = "http://linkless.header/"

\* out lists, in order, the entries of items whose index is in Keep.
IsSubSequence(out, items, Keep) ==
    /\ Len(out) = Cardinality(Keep)
    /\ \A i \in Keep : out[Cardinality({ j \in Keep : j <= i })] = items[i]

ScrapeTrue(e) == "scrape" \in DOMAIN e /\ e.scrape = TRUE

(* C7 (as amended): get_pages_to_scrape returns exactly the sub-sequence of *)
(* the entries that have scrape true and a url that is neither null nor     *)
(* empty, in the order of the input.                                        *)
C7_SelectorExact ==
    pc = "selected" =>
        IsSubSequence(pages_to_scrape, processed_items,
                      { i \in DOMAIN processed_items :
                          /\ ScrapeTrue(processed_items[i])
                          /\ processed_items[i].url # None
                          /\ processed_items[i].url # "" })

\* Two entries marked for scraping, the first one dropped for its empty url.
C7_Witness ==
    /\ pc = "selected"
    /\ Len(processed_items) = 2
    /\ ScrapeTrue(processed_items[1]) /\ processed_items[1].url = ""
    /\ processed_items[2].url # None /\ processed_items[2].url # ""
    /\ ScrapeTrue(processed_items[2])
    /\ pages_to_scrape = <<processed_items[2]>>

(* C7 as stated: the sub-sequence of the entries that have scrape true and  *)
(* a non-null url.                                                          *)
C7_AsStated ==
    pc = "selected" =>
        IsSubSequence(pages_to_scrape, processed_items,
                      { i \in DOMAIN processed_items :
                          /\ ScrapeTrue(processed_items[i])
                          /\ processed_items[i].url # None })

(* C8: after update_url an entry whose base_url starts with "/sites/" has   *)
(* url = site root + base_url, and an entry whose base_url is non-null,     *)
(* does not start with "/sites/" and is not the sentinel has url = base_url.*)
C8_UrlRewrite ==
    Resolved =>
        \A i \in DOMAIN processed_items :
            LET e == processed_items[i]
            IN  /\ (e.base_url # None /\ StartsWith(e.base_url, "/sites/")) =>
                       e.url = "https://uob.sharepoint.com" \o e.base_url
                /\ (/\ e.base_url # None
                    /\ ~StartsWith(e.base_url, "/sites/")
                    /\ e.base_url # "http://linkless.header/") =>
                       e.url = e.base_url

\* A site-relative entry and an absolute one in the same list.
C8_Witness ==
    /\ Resolved
    /\ \E i, j \in DOMAIN processed_items :
          /\ processed_items[i].url = "https://uob.sharepoint.com/sites/acme/about.aspx"
          /\ processed_items[j].url = "https://example.org/page.aspx"

(* C9: after process_navbar_items(items, S) an entry has scrape true if and *)
(* only if its base_url is non-null, starts with "/sites/" followed by S,   *)
(* ends with ".aspx" and ends with none of the exclusion names.             *)
C9_ScrapeIff ==
    Resolved =>
        \A i \in DOMAIN processed_items :
            LET e == processed_items[i]
            IN  e.scrape = (IncludedByPattern(e) /\ ~Excluded(e))

\* One entry marked and one left unmarked although it is an .aspx page.
C9_Witness ==
    /\ Resolved
    /\ \E i, j \in DOMAIN processed_items :
          /\ processed_items[i].scrape = TRUE
          /\ processed_items[j].scrape = FALSE
          /\ processed_items[j].base_url # None
          /\ EndsWith(processed_items[j].base_url, ".aspx")

\* Nodes with a null title and exactly two children, both titled.
TitlelessWithTwoChildren ==
    { p \in Titleless :
        LET cs == RawAt(quick_launch_data, p).Children
        IN  Len(cs) = 2 /\ cs[1].Title # None /\ cs[2].Title # None }

\* The raw top-level nodes that have a title, in order.
TitledTopLevel == { i \in DOMAIN quick_launch_data : quick_launch_data[i].Title # None }

(* C10 (as amended): when a raw node has a null title and two titled        *)
(* children, neither the node nor its children appear: get_navbar_items     *)
(* keeps the titled top-level nodes only, and every entry of a flat list    *)
(* that is produced comes from a titled node under titled ancestors, at the *)
(* depth of its original nesting.                                           *)
C10_ChildrenDropped ==
    TitlelessWithTwoChildren # {} =>
        /\ pc # "start" =>
             /\ Len(navbar_items) = Cardinality(TitledTopLevel)
             /\ \A i \in TitledTopLevel :
                  navbar_items[Cardinality({ j \in TitledTopLevel : j <= i })].title
                      = quick_launch_data[i].Title
        /\ Flattened =>
             /\ Len(processed_items) = Cardinality(SurvivingPaths)
             /\ \A p \in SurvivingPaths :
                  LET e == processed_items[Rank(p, SurvivingPaths)]
                  IN  /\ e.title = RawAt(quick_launch_data, p).Title
                      /\ e.base_level = Len(p) - 1

\* A titleless top-level node with two titled children next to a titled node:
\* the flat list holds the titled node alone.
C10_Witness ==
    /\ Flattened
    /\ \E p \in TitlelessWithTwoChildren : Len(p) = 1
    /\ Cardinality(AllRawPaths) = 4
    /\ Len(processed_items) = 1

(* C10 as stated: the flat list contains the two children of such a node,   *)
(* in order, each at the depth of its original nesting.                     *)
C10_AsStated ==
    Flattened =>
        \A p \in TitlelessWithTwoChildren :
            LET cs == RawAt(quick_launch_data, p).Children
            IN  \E i, j \in DOMAIN processed_items :
                   /\ i < j
                   /\ processed_items[i].title = cs[1].Title
                   /\ processed_items[i].base_level = Len(p)
                   /\ processed_items[j].title = cs[2].Title
                   /\ processed_items[j].base_level = Len(p)

(* C13: update_url changes only url, scrape and should_be_scraped: the list  *)
(* it returns has the length and order of its argument, and every entry     *)
(* keeps its title, slug, base_url, is_external, base_level and level.      *)
C13_UpdateUrlFrame ==
    [][ (pc = "flattened" /\ pc' = "processed") =>
          /\ Len(processed_items') = Len(processed_items)
          /\ \A i \in DOMAIN processed_items :
                /\ DOMAIN processed_items'[i] = DOMAIN processed_items[i]
                /\ \A f \in {"title", "slug", "base_url", "is_external",
                              "base_level", "level"} :
                       processed_items'[i][f] = processed_items[i][f] ]_vars

\* update_url has rewritten the url and the eligibility of an entry of a list
\* of two whose other fields are those flatten_items gave it.
C13_Witness ==
    /\ pc = "processed"
    /\ Len(processed_items) = 2
    /\ \E i \in DOMAIN processed_items :
          /\ processed_items[i].url # processed_items[i].base_url
          /\ processed_items[i].scrape
          /\ processed_items[i].level = 2

-----------------------------------------------------------------------------
(* all-sites.py: check_site_data_exists, should_process_site *)

\* Path("output/site-data") / site_slug
BaseDir(slug) == "output/site-data/" \o slug

\* base_dir / "index.html"
IndexFile(slug) == BaseDir(slug) \o "/index.html"

\* base_dir / "navbar_links.json"
NavbarLinksFile(slug) == BaseDir(slug) \o "/navbar_links.json"

\* Path("output") / f"{site_slug}.md"
SitemapFile(slug) == "output/" \o slug \o ".md"

\* Path.exists() against the set of paths on disk.
Exists(fs, path) == path \in fs

check_site_data_exists(fs, slug) ==
    [ site_data |-> Exists(fs, BaseDir(slug)) /\ Exists(fs, IndexFile(slug)),
      sitemap   |-> Exists(fs, SitemapFile(slug)) ]

\* Variant: any force option forces every step.
should_process_site_any_force(fs, slug, force_option, step) ==
    IF force_option # None THEN TRUE
    ELSE LET existing_data == check_site_data_exists(fs, slug)
         IN  IF step = "scrape" THEN ~existing_data.site_data
             ELSE IF step = "generate"
                  THEN existing_data.site_data /\ ~existing_data.sitemap
                  ELSE FALSE

should_process_site(fs, slug, force_option, step) ==
    IF force_option = "all" THEN TRUE
    ELSE IF force_option = step THEN TRUE
    ELSE LET existing_data == check_site_data_exists(fs, slug)
         IN  IF step = "scrape" THEN ~existing_data.site_data
             ELSE IF step = "generate"
                  THEN existing_data.site_data /\ ~existing_data.sitemap
                  ELSE FALSE

\* --force choices; None when the option is absent.
ForceOptions == {None, "all", "scrape", "generate"}

\* What earlier runs can have left on disk for one site: nothing, the
\* directories alone, or any of the files inside them.
SiteFiles(slug) ==
    { {} } \cup
    { {"output"} \cup f : f \in SUBSET {SitemapFile(slug)} } \cup
    { {"output", "output/site-data", BaseDir(slug)} \cup f :
        f \in SUBSET {IndexFile(slug), NavbarLinksFile(slug), SitemapFile(slug)} }

InitShould ==
    /\ sp_site \in Slugs
    /\ \E own \in SiteFiles(sp_site) :
       \E slug \in Slugs \ {sp_site} :
       \E others \in { {}, {"output", "output/site-data", BaseDir(slug),
                             IndexFile(slug)} } :
          sp_fs = own \cup others
    /\ sp_force \in ForceOptions
    /\ sp_step \in {"scrape", "generate"}
    /\ sp_result = FALSE
    /\ sp_pc = "start"
    /\ OthersIdle("sp")

ShouldProcessSite ==
    /\ sp_pc = "start"
    /\ sp_result' = should_process_site(sp_fs, sp_site, sp_force, sp_step)
    /\ sp_pc' = "done"
    /\ UNCHANGED <<sp_fs, sp_site, sp_force, sp_step>>
    /\ UNCHANGED <<nav_vars, fn_vars, ql_vars, sm_vars, sr_vars, bt_vars>>

NextShould == ShouldProcessSite

SpecShould == InitShould /\ [][NextShould]_vars

\* The site has a stored index page.
HasIndexPage == ("output/site-data/" \o sp_site \o "/index.html") \in sp_fs

\* The site has a sitemap file.
HasSitemap == ("output/" \o sp_site \o ".md") \in sp_fs

(* C16: should_process_site answers yes under force "all" and under a force *)
(* value equal to the step; otherwise the scrape step runs exactly when the *)
(* site has no stored index page and the generate step exactly when it has  *)
(* a stored index page and no sitemap file, so that forcing one step leaves *)
(* the decision for the other to the data on disk.                          *)
C16_StepDecision ==
    sp_pc = "done" =>
        /\ sp_force = "all" => sp_result
        /\ sp_force = sp_step => sp_result
        /\ (sp_force # "all" /\ sp_force # sp_step /\ sp_step = "scrape") =>
              (sp_result <=> ~HasIndexPage)
        /\ (sp_force # "all" /\ sp_force # sp_step /\ sp_step = "generate") =>
              (sp_result <=> (HasIndexPage /\ ~HasSitemap))

\* Scrape is forced, the site has both its index page and its sitemap, and
\* the generate step is declined.
C16_Witness ==
    /\ sp_pc = "done"
    /\ sp_force = "scrape"
    /\ sp_step = "generate"
    /\ HasIndexPage /\ HasSitemap
    /\ ~sp_result

-----------------------------------------------------------------------------
(* scrape-site.py: get_page_filename *)

\* s[i] of Python, with the first character at 1.
Char(s, i) == SubSeq(s, i, i)

\* s[i:] of Python, with the first character at 1.
From(s, i) == SubSeq(s, i, Len(s))

\* Least position >= from of a character of s that is in chars, 0 when there
\* is none (str.find, which answers -1 then).
FindAny(s, chars, from) ==
    LET I == { i \in from..Len(s) : Char(s, i) \in chars }
    IN  IF I = {} THEN 0 ELSE CHOOSE i \in I : \A j \in I : i <= j

\* str.lower() of a scheme.
RECURSIVE Lower(_)
Lower(s) ==
    IF s = "" THEN ""
    ELSE LET c == Char(s, 1)
             u == FindAny(UpperChars, {c}, 1)
         IN  (IF u = 0 THEN c ELSE Char(LowerChars, u)) \o Lower(From(s, 2))

\* url.split(c, 1)[0]
Before1(s, c) ==
    LET i == FindAny(s, {c}, 1)
    IN  IF i = 0 THEN s ELSE SubSeq(s, 1, i - 1)

\* urlparse(url).path
UrlPath(url) ==
    LET
        \* urllib.parse.uses_params, as far as the input schemes go.
        uses_params == {"", "ftp", "http", "https", "sftp"}
        \* urlsplit, first step: a leading "scheme:" is taken off when the text before
        \* the first colon starts with a letter and is made of scheme characters.
        SplitScheme(text) ==
            LET
                \* urllib.parse.scheme_chars
                scheme_chars == UpperChars \o LowerChars \o DigitChars \o "+-."
            IN
                LET i == FindAny(text, {":"}, 1)
                IN  IF /\ i > 1
                       /\ CharIn(Char(text, 1), UpperChars \o LowerChars)
                       /\ \A k \in 1..(i - 1) : CharIn(Char(text, k), scheme_chars)
                    THEN [scheme |-> Lower(SubSeq(text, 1, i - 1)), rest |-> From(text, i + 1)]
                    ELSE [scheme |-> "", rest |-> text]
        \* urlsplit, second step (_splitnetloc): after "//" the network location runs
        \* to the first of "/", "?" and "#".
        SplitNetloc(rest) ==
            IF StartsWith(rest, "//")
            THEN LET d == FindAny(rest, {"/", "?", "#"}, 3)
                 IN  IF d = 0 THEN [netloc |-> From(rest, 3), rest |-> ""]
                     ELSE [netloc |-> SubSeq(rest, 3, d - 1), rest |-> From(rest, d)]
            ELSE [netloc |-> "", rest |-> rest]
        \* urlparse (_splitparams): the parameters of the last path segment are cut
        \* off at its first ";".
        SplitParams(path) ==
            LET
                \* Greatest position of the character c in s, 0 when there is none (str.rfind).
                RFind(s, c) ==
                    LET I == { i \in 1..Len(s) : Char(s, i) = c }
                    IN  IF I = {} THEN 0 ELSE CHOOSE i \in I : \A j \in I : j <= i
            IN
                LET slash == RFind(path, "/")
                    i == FindAny(path, {";"}, IF slash = 0 THEN 1 ELSE slash)
                IN  IF i = 0 THEN path ELSE SubSeq(path, 1, i - 1)
    IN
        LET s == SplitScheme(url)
            n == SplitNetloc(s.rest)
            p == Before1(Before1(n.rest, "#"), "?")
        IN  IF s.scheme \in uses_params THEN SplitParams(p) ELSE p

\* str.split(sep) for a one-character separator.
RECURSIVE Split(_, _)
Split(s, sep) ==
    LET i == FindAny(s, {sep}, 1)
    IN  IF i = 0 THEN <<s>>
        ELSE <<SubSeq(s, 1, i - 1)>> \o Split(From(s, i + 1), sep)

\* [part for part in parts if part]
NonEmptyPart(part) == part # ""

\* re.sub(r'[<>:"/\\|?*]', "_", filename)
RECURSIVE Sanitize(_)
Sanitize(filename) ==
    LET
        \* The character class [<>:"/\\|?*] of the sanitising pattern.
        UnsafeChars == {"<", ">", ":", "\"", "/", "\\", "|", "?", "*"}
    IN
        IF filename = "" THEN ""
        ELSE (IF Char(filename, 1) \in UnsafeChars THEN "_" ELSE Char(filename, 1))
             \o Sanitize(From(filename, 2))

\* Variant: ".html" is appended whatever the segment ends in.
get_page_filename_always_append(url) ==
    LET path_parts == SelectSeq(Split(UrlPath(url), "/"), NonEmptyPart)
    IN  IF path_parts = <<>> THEN "index.html"
        ELSE Sanitize(path_parts[Len(path_parts)] \o ".html")

get_page_filename(url) ==
    LET path_parts == SelectSeq(Split(UrlPath(url), "/"), NonEmptyPart)
    IN  IF path_parts = <<>> THEN "index.html"
        ELSE LET filename == path_parts[Len(path_parts)]
                 named == IF EndsWith(filename, ".html") THEN filename
                          ELSE filename \o ".html"
             IN  Sanitize(named)

\* Variant: the file name is not sanitised.
get_page_filename_from_url_unsanitised(url) ==
    IF ~Truthy(url) THEN "index.html"
    ELSE LET path_parts == SelectSeq(Split(UrlPath(url), "/"), NonEmptyPart)
         IN  IF path_parts = <<>> THEN "index.html"
             ELSE LET filename == path_parts[Len(path_parts)]
                  IN  IF EndsWith(filename, ".html") THEN filename
                      ELSE filename \o ".html"

\* generate-sitemap.get_page_filename_from_url
get_page_filename_from_url(url) ==
    IF ~Truthy(url) THEN "index.html"
    ELSE LET path_parts == SelectSeq(Split(UrlPath(url), "/"), NonEmptyPart)
         IN  IF path_parts = <<>> THEN "index.html"
             ELSE LET filename == path_parts[Len(path_parts)]
                      named == IF EndsWith(filename, ".html") THEN filename
                               ELSE filename \o ".html"
                  IN  Sanitize(named)

FilenameUrls ==
    LET
        \* What stands before the path of a url.
        UrlPrefixes == {"", "https://uob.sharepoint.com", "//uob.sharepoint.com:443",
                        "file://host"}
        \* Paths: none, slashes only, plain segments, segments that end in ".html",
        \* segments with unsafe characters, with parameters and with a colon.
        UrlPathTexts ==
            {"", "/", "//", "/sites/acme", "/sites/acme/", "/sites/acme/about.aspx",
             "/sites/acme/page.html", "/sites/acme/.html", "/sites/acme/a:b",
             "/sites/acme/page<>", "/sites/acme/q\"|*x", "/sites/acme/a\\b",
             "/sites/acme/page;v=1", "/sites/a;b/c.aspx", "page:x/y.aspx"}
        \* What stands after the path of a url.
        UrlSuffixes == {"", "?q=/a/b.html", "#top/x", "?a=1#b"}
    IN
        { p \o q \o r : p \in UrlPrefixes, q \in UrlPathTexts, r \in UrlSuffixes }

\* The url of a worklist entry, or the null url of a navbar entry, which only
\* the sitemap generator meets.
InitFilename ==
    /\ fn_url \in FilenameUrls \cup {None}
    /\ fn_name = ""
    /\ fn_lookup = ""
    /\ fn_pc = "start"
    /\ OthersIdle("fn")

\* The scraper names the file it writes for a worklist url.
GetPageFilename ==
    /\ fn_pc = "start"
    /\ fn_url # None
    /\ fn_name' = get_page_filename(fn_url)
    /\ fn_pc' = "done"
    /\ UNCHANGED <<fn_url, fn_lookup>>
    /\ UNCHANGED <<nav_vars, sp_vars, ql_vars, sm_vars, sr_vars, bt_vars>>

\* The sitemap generator names the file it looks up for the url of an entry.
GetPageFilenameFromUrl ==
    /\ fn_pc = "done" \/ (fn_pc = "start" /\ fn_url = None)
    /\ fn_lookup' = get_page_filename_from_url(fn_url)
    /\ fn_pc' = "looked_up"
    /\ UNCHANGED <<fn_url, fn_name>>
    /\ UNCHANGED <<nav_vars, sp_vars, ql_vars, sm_vars, sr_vars, bt_vars>>

NextFilename == GetPageFilename \/ GetPageFilenameFromUrl

SpecFilename == InitFilename /\ [][NextFilename]_vars

\* The path of the url has no non-empty segment: it is made of "/" alone.
NoSegment(path) == \A i \in 1..Len(path) : SubSeq(path, i, i) = "/"

\* The last non-empty segment of a path that has one: it ends at the last
\* character that is not "/" and starts after the last "/" before that.
LastSegment(path) ==
    LET last == CHOOSE b \in 1..Len(path) :
                    /\ SubSeq(path, b, b) # "/"
                    /\ \A k \in (b + 1)..Len(path) : SubSeq(path, k, k) = "/"
        first == CHOOSE a \in 1..last :
                    /\ \A k \in a..last : SubSeq(path, k, k) # "/"
                    /\ (a = 1 \/ SubSeq(path, a - 1, a - 1) = "/")
    IN  SubSeq(path, first, last)

\* name is text with every unsafe character replaced by "_".
IsSanitized(name, text) ==
    /\ Len(name) = Len(text)
    /\ \A i \in 1..Len(text) :
          SubSeq(name, i, i) =
              IF SubSeq(text, i, i) \in {"<", ">", ":", "\"", "/", "\\", "|", "?", "*"}
              THEN "_" ELSE SubSeq(text, i, i)

(* C14: get_page_filename returns "index.html" for a url whose path has no  *)
(* non-empty segment; otherwise the last non-empty path segment, ".html"    *)
(* appended unless it ends in ".html", with every character among           *)
(* < > : " / \ | ? * replaced by "_"; the name always ends in ".html" and   *)
(* holds none of those characters.                                          *)
C14_PageFilename ==
    fn_pc = "done" =>
        LET path == UrlPath(fn_url)
        IN  /\ NoSegment(path) => fn_name = "index.html"
            /\ ~NoSegment(path) =>
                  LET seg == LastSegment(path)
                  IN  IsSanitized(fn_name,
                                  IF EndsWith(seg, ".html") THEN seg
                                  ELSE seg \o ".html")
            /\ EndsWith(fn_name, ".html")
            /\ \A i \in 1..Len(fn_name) :
                  SubSeq(fn_name, i, i) \notin
                      {"<", ">", ":", "\"", "/", "\\", "|", "?", "*"}

\* A last segment with unsafe characters and no ".html" ending.
C14_Witness ==
    /\ fn_pc = "done"
    /\ fn_url = "https://uob.sharepoint.com/sites/acme/q\"|*x"
    /\ fn_name = "q___x.html"

-----------------------------------------------------------------------------
(* navbar_parser.py: get_quick_launch_data *)

\* Positions at which the text p occurs in s.
Occurrences(s, p) ==
    { i \in 1..(Len(s) - Len(p) + 1) : SubSeq(s, i, i + Len(p) - 1) = p }

\* "navigationInfo" in str(e)
HasMarker(script) == Occurrences(script, "navigationInfo") # {}

\* The text before the group of re_pattern.
PatternHead == "\"navigationInfo\":"

\* re.search(re_pattern, text): None, or the first group of the leftmost
\* match, the greedy group running to the last pattern tail it can reach.
re_search(text) ==
    LET
        \* Pairs <<i, j>>: the pattern head at i, the pattern tail at j, and between
        \* them characters "." matches, that is no line break.
        PatternMatches ==
            LET
                \* The text after the first group of re_pattern.
                PatternTail == ",\"appBarParams\""
            IN
                { m \in Occurrences(text, PatternHead) \X Occurrences(text, PatternTail) :
                    /\ m[1] + Len(PatternHead) <= m[2]
                    /\ \A k \in (m[1] + Len(PatternHead))..(m[2] - 1) :
                          SubSeq(text, k, k) # "\n" }
    IN
        LET M == PatternMatches
        IN  IF M = {} THEN None
            ELSE LET i == CHOOSE a \in { m[1] : m \in M } :
                              \A m \in M : a <= m[1]
                     j == CHOOSE b \in { m[2] : m \in { n \in M : n[1] = i } } :
                              \A m \in { n \in M : n[1] = i } : m[2] <= b
                 IN  SubSeq(text, i + Len(PatternHead), j - 1)

\* quickLaunch lists: a one-node navigation; a site with three pages, two of
\* them of the same file name, and an external link; a site whose only node
\* has a titleless child.
QuickLaunch ==
    [ one_node |->
          << RawNode("Home", Link("/sites/acme/about.aspx", TRUE, "False"), <<>>) >>,
      site_navigation |->
          << RawNode("About Us", Link("/sites/acme/about.aspx", TRUE, "False"),
          << RawNode("Archive", Link("/sites/acme/old/about.aspx", TRUE, "False"), <<>>) >>),
          RawNode("Team", Link("/sites/acme/team.aspx", TRUE, "False"), <<>>),
          RawNode("Library", Link("https://example.org/page.aspx", TRUE, "True"), <<>>) >>,
      titleless_child |->
          << RawNode("Home", Link("/sites/acme/about.aspx", TRUE, "False"),
          << RawNode(None, Link("/sites/acme/about.aspx", TRUE, "False"), <<>>) >>) >> ]

\* JSON texts the documents carry between the pattern head and tail.
Json ==
    [ one_node |->
          "{\"quickLaunch\":[{\"Title\":\"Home\",\"Url\":\"/sites/acme/about.aspx\",\"IsExternal\":false,\"Children\":[]}]}",
      empty_list |->
          "{\"quickLaunch\":[],\"appBarParams\":{}}",
      no_key |->
          "{\"topNav\":[]}",
      not_dict |->
          "[{\"quickLaunch\":[]}]",
      invalid |->
          "{\"quickLaunch\":[}",
      site_navigation |->
          "{\"quickLaunch\":[{\"Title\":\"About Us\",\"Url\":\"/sites/acme/about.aspx\",\"IsExternal\":false,\"Children\":[{\"Title\":\"Archive\",\"Url\":\"/sites/acme/old/about.aspx\",\"IsExternal\":false,\"Children\":[]}]},{\"Title\":\"Team\",\"Url\":\"/sites/acme/team.aspx\",\"IsExternal\":false,\"Children\":[]},{\"Title\":\"Library\",\"Url\":\"https://example.org/page.aspx\",\"IsExternal\":true,\"Children\":[]}]}",
      titleless_child |->
          "{\"quickLaunch\":[{\"Title\":\"Home\",\"Url\":\"/sites/acme/about.aspx\",\"IsExternal\":false,\"Children\":[{\"Title\":null,\"Url\":\"/sites/acme/about.aspx\",\"IsExternal\":false,\"Children\":[]}]}]}" ]

\* json.loads on those texts; any other text they can be cut to is not JSON.
json_loads(text) ==
    CASE text = Json.one_node   -> [type |-> "dict", keys |-> {"quickLaunch"},
                                  quickLaunch |-> QuickLaunch.one_node]
      [] text = Json.empty_list -> [type |-> "dict", keys |-> {"quickLaunch", "appBarParams"},
                                  quickLaunch |-> <<>>]
      [] text = Json.no_key     -> [type |-> "dict", keys |-> {"topNav"}]
      [] text = Json.site_navigation -> [type |-> "dict", keys |-> {"quickLaunch"},
                                       quickLaunch |-> QuickLaunch.site_navigation]
      [] text = Json.titleless_child -> [type |-> "dict", keys |-> {"quickLaunch"},
                                       quickLaunch |-> QuickLaunch.titleless_child]
      [] text = Json.not_dict   -> [type |-> "list"]
      [] OTHER                -> [type |-> "JSONDecodeError"]

Raised(error) == [kind |-> "raised", error |-> error]

Returned(value) == [kind |-> "returned", value |-> value]

Pending == [kind |-> "pending"]

\* Variant: a payload without the "quickLaunch" key gives the empty list.
get_quick_launch_data_lenient(soup) ==
    LET navigation_info_match == SelectSeq(soup, HasMarker)
    IN  IF Len(navigation_info_match) = 0 THEN Raised("AssertionError")
        ELSE LET group == re_search(navigation_info_match[1])
             IN  IF group = None THEN Raised("AssertionError")
                 ELSE LET match_group_dict == json_loads(group)
                      IN  IF match_group_dict.type = "JSONDecodeError"
                          THEN Raised("JSONDecodeError")
                          ELSE IF match_group_dict.type # "dict"
                          THEN Raised("AssertionError")
                          ELSE IF "quickLaunch" \notin match_group_dict.keys
                          THEN Returned(<<>>)
                          ELSE Returned(match_group_dict.quickLaunch)

\* soup is the sequence of str(e) for e in soup.find_all("script").
get_quick_launch_data(soup) ==
    LET navigation_info_match == SelectSeq(soup, HasMarker)
    IN  IF Len(navigation_info_match) = 0 THEN Raised("AssertionError")
        ELSE LET group == re_search(navigation_info_match[1])
             IN  IF group = None THEN Raised("AssertionError")
                 ELSE LET match_group_dict == json_loads(group)
                      IN  IF match_group_dict.type = "JSONDecodeError"
                          THEN Raised("JSONDecodeError")
                          ELSE IF match_group_dict.type # "dict"
                          THEN Raised("AssertionError")
                          ELSE IF "quickLaunch" \notin match_group_dict.keys
                          THEN Raised("AssertionError")
                          ELSE Returned(match_group_dict.quickLaunch)

\* A script element that carries text between the pattern head and tail.
PayloadScript(json) ==
    "<script>var ctx = {\"navigationInfo\":" \o json \o ",\"appBarParams\":{}};</script>"

\* Script elements: without the marker, with the marker but not the pattern
\* (no head, or a line break before the tail), and with a payload.
Scripts ==
    { "<script>var a = 1;</script>",
      "<script>var navigationInfo = null;</script>",
      "<script>{\"navigationInfo\":{\"quickLaunch\":[]}\n,\"appBarParams\":{}}</script>" }
    \cup { PayloadScript(json) :
             json \in {Json.one_node, Json.empty_list, Json.no_key, Json.not_dict, Json.invalid} }

\* Number of script elements of a document.
MaxScripts == 2

Soups == UNION { [1..n -> Scripts] : n \in 0..MaxScripts }

\* Documents with no script element or with one.
SmallSoups == { <<>> } \cup { <<s>> : s \in Scripts }

\* The documents of two sites, one call each.
Calls == {1, 2}

\* The first document is any document, the second a small one.
InitQuickLaunch ==
    /\ ql_soup \in { <<a, b>> : a \in Soups, b \in SmallSoups }
    /\ ql_outcome = [c \in Calls |-> Pending]
    /\ OthersIdle("ql")

GetQuickLaunchData(c) ==
    /\ ql_outcome[c] = Pending
    /\ \A d \in Calls : d < c => ql_outcome[d] # Pending
    /\ ql_outcome' = [ql_outcome EXCEPT ![c] = get_quick_launch_data(ql_soup[c])]
    /\ UNCHANGED ql_soup
    /\ UNCHANGED <<nav_vars, sp_vars, fn_vars, sm_vars, sr_vars, bt_vars>>

NextQuickLaunch == \E c \in Calls : GetQuickLaunchData(c)

SpecQuickLaunch == InitQuickLaunch /\ [][NextQuickLaunch]_vars

\* The case a document falls in: no script element contains the marker, the
\* first one that does is not matched by the delimiter pattern, the matched
\* value parses to an object without the "quickLaunch" key, or to one with
\* it; "other" when the value is not JSON or not an object.
PayloadCase(soup) ==
    LET marked == { i \in DOMAIN soup : HasMarker(soup[i]) }
    IN  IF marked = {} THEN "not_found"
        ELSE LET first == CHOOSE i \in marked : \A j \in marked : i <= j
                 parsed == json_loads(re_search(soup[first]))
             IN  IF re_search(soup[first]) = None THEN "malformed"
                 ELSE IF parsed.type # "dict" THEN "other"
                 ELSE IF "quickLaunch" \in parsed.keys THEN "found"
                 ELSE "schema_mismatch"

FailureCases == {"not_found", "malformed", "schema_mismatch"}

-----------------------------------------------------------------------------
(* generate-sitemap.py: render_pages, generate_full_sitemap;                *)
(* page_render.py: render_page                                              *)

\* "{}".format(x) and f"{x}" of a string or None.
Str(x) == IF x = None THEN "None" ELSE x

\* s * n
RECURSIVE Repeat(_, _)
Repeat(s, n) == IF n <= 0 THEN "" ELSE s \o Repeat(s, n - 1)

\* reduce(lambda a, b: a + b) over a list of strings.
RECURSIVE Concat(_)
Concat(parts) == IF parts = <<>> THEN "" ELSE Head(parts) \o Concat(Tail(parts))

\* sep.join(parts)
RECURSIVE Join(_, _)
Join(sep, parts) ==
    IF parts = <<>> THEN ""
    ELSE IF Len(parts) = 1 THEN parts[1]
    ELSE parts[1] \o sep \o Join(sep, Tail(parts))

RaisedWith(error, message) == [kind |-> "raised", error |-> error, message |-> message]

\* markdown_converter.convert_headers: an indented list, h2 at the margin; an
\* h1 fails the assert, whose message is the value of print(...), None.
convert_headers(header_tags) ==
    IF \E i \in DOMAIN header_tags : header_tags[i].level < 2
    THEN RaisedWith("AssertionError", "None")
    ELSE Returned(Concat([ i \in DOMAIN header_tags |->
             Repeat("  ", header_tags[i].level - 2) \o "- "
                 \o header_tags[i].text \o "\n" ]))

\* general_parser.get_hrefs: the links of the article; the assert without a
\* message fails when the page has no article.
get_hrefs(soup) ==
    IF ~soup.has_article THEN RaisedWith("AssertionError", "")
    ELSE Returned(soup.links)

\* markdown_converter.convert_links
convert_links(link_tags) ==
    Concat([ i \in DOMAIN link_tags |->
        "- [" \o link_tags[i].text \o "](" \o link_tags[i].href \o ")\n" ])

\* page_render.PAGE_TEMPLATE.format(...)
PageTemplate(hash, title, front_matter, sections, links) ==
    "\n" \o hash \o " " \o title \o "\n\n" \o front_matter
        \o "\n\n**Sections**\n" \o sections \o "\n\n**Links**\n" \o links \o "\n"

render_page(soup, page_info) ==
    LET hash == Repeat("#", page_info.level)
        front_matter == "\n- url: " \o Str(page_info.url) \o "\n"
        section_md == convert_headers(soup.headers)
        href_tags == get_hrefs(soup)
    IN  IF section_md.kind = "raised" THEN section_md
        ELSE IF href_tags.kind = "raised" THEN href_tags
        ELSE Returned(PageTemplate(hash, page_info.title, front_matter,
                                   section_md.value, convert_links(href_tags.value)))

\* The None load_page_html returns, where a parsed page is expected.
NoSoup == [is_none |-> TRUE]

\* load_page_html(pages_dir / filename): None when there is no such file.
load_page_html(pages, filename) ==
    IF filename \in DOMAIN pages THEN pages[filename] ELSE NoSoup

\* The body of the loop of render_pages for one item.
render_item(item, pages) ==
    IF ~Truthy(item.url) THEN item
    ELSE LET soup == load_page_html(pages, get_page_filename_from_url(item.url))
         IN  IF soup = NoSoup
             THEN [item EXCEPT !.page_render = "Page content not available"]
             ELSE LET rendered_content == render_page(soup, item)
                  IN  IF rendered_content.kind = "raised"
                      THEN [item EXCEPT !.page_render =
                               "Error rendering page: " \o rendered_content.message]
                      ELSE [item EXCEPT !.page_render = rendered_content.value]

\* Variant: rendering stops at the first page that raises.
render_pages_abort(render_items, pages) ==
    LET bad == { i \in DOMAIN render_items :
                   /\ Truthy(render_items[i].url)
                   /\ load_page_html(pages, get_page_filename_from_url(render_items[i].url)) # NoSoup
                   /\ render_page(load_page_html(pages,
                          get_page_filename_from_url(render_items[i].url)),
                          render_items[i]).kind = "raised" }
        stop == IF bad = {} THEN Len(render_items)
                ELSE (CHOOSE i \in bad : \A j \in bad : i <= j) - 1
    IN  [ i \in 1..stop |-> render_item(render_items[i], pages) ]

render_pages(render_items, pages) ==
    [ i \in DOMAIN render_items |-> render_item(render_items[i], pages) ]

\* One navigation part of generate_full_sitemap.
navigation_part(item) ==
    IF item.page_render # None /\ item.page_render # ""
    THEN item.page_render
    ELSE Repeat("#", item.level + 1) \o " " \o item.title
             \o "\n\n- url: " \o Str(item.url) \o "\n"

generate_full_sitemap(render_data) ==
    "# " \o render_data.site_title
      \o "\n\n- Site: " \o render_data.site_url
      \o "\n- Slug: " \o render_data.site_slug
      \o "\n\n## Home Page\n\n"
      \o (IF render_data.root_page_render = None \/ render_data.root_page_render = ""
          THEN "Home page content not available"
          ELSE render_data.root_page_render)
      \o "\n\n## Site Navigation\n\n"
      \o Join("\n\n", [ i \in DOMAIN render_data.navbar_items |->
                 navigation_part(render_data.navbar_items[i]) ])
      \o "\n"

\* convert_to_render_items
convert_to_render_items(data) ==
    [ i \in DOMAIN data |->
        [ title |-> data[i].title, slug |-> data[i].slug, url |-> data[i].url,
          page_render |-> None, level |-> data[i].level ] ]

\* Entries of navbar_links.json as save_navbar_links writes them: a header
\* without url, one with an empty url, two pages of the site at two levels,
\* and an external link whose last path segment is that of a page of the
\* site.
NavbarEntries ==
    { [ title |-> e[1], slug |-> Slugify(e[1]), url |-> e[2],
        should_be_scraped |-> e[3], level |-> level ] :
        e \in { <<"Resources", None, FALSE>>, <<"Contact", "", FALSE>>,
                <<"About Us", "https://uob.sharepoint.com/sites/acme/about.aspx", TRUE>>,
                <<"Team", "https://uob.sharepoint.com/sites/acme/team.aspx", TRUE>> },
        level \in {1, 2} }
    \cup { [ title |-> "Library", slug |-> Slugify("Library"),
             url |-> "https://example.org/about.aspx",
             should_be_scraped |-> FALSE, level |-> 1 ] }

\* Number of entries of a render list.
MaxItems == 2

NavbarLists == UNION { [1..n -> NavbarEntries] : n \in 0..MaxItems }

\* Parsed pages: one that renders, an empty one, one without an article and
\* one with an h1 header.
PageSoups ==
    { [has_article |-> TRUE,
       headers |-> << [level |-> 2, text |-> "Overview"], [level |-> 3, text |-> "People"] >>,
       links |-> << [text |-> "Home", href |-> "/sites/acme/"] >>],
      [has_article |-> TRUE, headers |-> <<>>, links |-> <<>>],
      [has_article |-> FALSE,
       headers |-> << [level |-> 2, text |-> "Overview"] >>, links |-> <<>>],
      [has_article |-> TRUE,
       headers |-> << [level |-> 1, text |-> "Welcome"] >>, links |-> <<>>] }

\* The pages directory: any of two files, each with a parsed page.
PageDirs ==
    UNION { [F -> PageSoups] : F \in SUBSET {"about.aspx.html", "team.aspx.html"} }

InitSitemap ==
    /\ sm_navbar \in NavbarLists
    /\ sm_items = <<>>
    /\ sm_pages \in PageDirs
    /\ sm_rendered = <<>>
    /\ sm_sitemap = ""
    /\ sm_pc = "loaded"
    /\ OthersIdle("sm")

ConvertToRenderItems ==
    /\ sm_pc = "loaded"
    /\ sm_items' = convert_to_render_items(sm_navbar)
    /\ sm_pc' = "start"
    /\ UNCHANGED <<sm_navbar, sm_pages, sm_rendered, sm_sitemap>>
    /\ UNCHANGED <<nav_vars, sp_vars, fn_vars, ql_vars, sr_vars, bt_vars>>

\* render_pages assigns page_render on the items of its argument and returns
\* them in a new list.
RenderPages ==
    /\ sm_pc = "start"
    /\ sm_rendered' = render_pages(sm_items, sm_pages)
    /\ sm_items' = render_pages(sm_items, sm_pages)
    /\ sm_pc' = "rendered"
    /\ UNCHANGED <<sm_navbar, sm_pages, sm_sitemap>>
    /\ UNCHANGED <<nav_vars, sp_vars, fn_vars, ql_vars, sr_vars, bt_vars>>

GenerateFullSitemap ==
    /\ sm_pc = "rendered"
    /\ sm_sitemap' = generate_full_sitemap(
           [ site_title |-> "Unknown Site",
             site_slug |-> "acme",
             site_url |-> "https://uob.sharepoint.com/sites/acme",
             root_page_render |-> "Index page content not available",
             navbar_items |-> sm_rendered ])
    /\ sm_pc' = "generated"
    /\ UNCHANGED <<sm_navbar, sm_items, sm_pages, sm_rendered>>
    /\ UNCHANGED <<nav_vars, sp_vars, fn_vars, ql_vars, sr_vars, bt_vars>>

NextSitemap == ConvertToRenderItems \/ RenderPages \/ GenerateFullSitemap

SpecSitemap == InitSitemap /\ [][NextSitemap]_vars

\* Rendering the page stored for the entry raises: the page has no article,
\* or a header of level 1.
RenderFails(item) ==
    /\ item.url # None /\ item.url # ""
    /\ get_page_filename_from_url(item.url) \in DOMAIN sm_pages
    /\ LET page == sm_pages[get_page_filename_from_url(item.url)]
       IN  \/ ~page.has_article
           \/ \E h \in DOMAIN page.headers : page.headers[h].level = 1

NavigationSection ==
    LET at == Occurrences(sm_sitemap, "\n## Site Navigation\n\n")
    IN  SubSeq(sm_sitemap,
               (CHOOSE p \in at : \A q \in at : p <= q) + 1,
               Len(sm_sitemap))

\* text has the line: it stands between line breaks or the ends of text.
HasLine(text, line) ==
    \E p \in Occurrences(text, line) :
        /\ (p = 1 \/ SubSeq(text, p - 1, p - 1) = "\n")
        /\ (p + Len(line) > Len(text)
              \/ SubSeq(text, p + Len(line), p + Len(line)) = "\n")

(* C19: in the sitemap made by render_pages and generate_full_sitemap every *)
(* navbar entry of level L is represented in the navigation section by a    *)
(* heading of exactly L+1 "#" characters followed by the entry's title,     *)
(* whether its page was rendered, was unavailable, or it has no url.        *)
C19_HeadingLevel ==
    sm_pc = "generated" =>
        \A i \in DOMAIN sm_rendered :
            HasLine(NavigationSection,
                    SubSeq("######", 1, sm_rendered[i].level + 1) \o " "
                        \o sm_rendered[i].title)

-----------------------------------------------------------------------------
(* scrape-site.py: main and the functions it calls, for one site; the same  *)
(* steps run in all-sites.py scrape_site_internal                           *)

\* The site of the run.
RunSlug == "acme"

\* site_url = f"{SITE_ROOT}/sites/{site_slug}"
SiteUrl(slug) == SITE_ROOT \o "/sites/" \o slug

\* dirs["pages"]
PagesDir(slug) == BaseDir(slug) \o "/pages"

\* pages_dir / filename
PageFile(slug, filename) == PagesDir(slug) \o "/" \o filename

\* The page before the first page.goto.
BlankPage == [kind |-> "blank", url |-> "", scripts |-> <<>>, run |-> "this"]

\* What a page.goto and the wait after it can end in: the page loaded; an
\* authentication page that the user has left behind when the script goes
\* on; an authentication page that is still shown then; an error.
GotoOutcomes == {"loaded", "auth_completed", "auth_pending", "error"}

\* page.content() after page.goto(url) ended in outcome o (not "error"): an
\* authentication page, or the page of the site at url with its script
\* elements.
Content(o, url, scripts) ==
    IF o = "auth_pending"
    THEN [kind |-> "auth", url |-> "https://login.microsoftonline.com/",
          scripts |-> <<>>, run |-> "this"]
    ELSE [kind |-> "site", url |-> url, scripts |-> scripts, run |-> "this"]

\* create_output_directories: mkdir(parents=True, exist_ok=True)
create_output_directories(dirs, slug) ==
    dirs \cup {"output", "output/site-data", BaseDir(slug), PagesDir(slug)}

\* Variant: a document without navigation payload gives an empty list.
extract_navbar_links_lenient(html_content, slug) ==
    LET data == get_quick_launch_data(html_content.scripts)
    IN  IF data.kind = "raised"
        THEN [kind |-> "returned", value |-> <<>>, flattened |-> FALSE]
        ELSE LET items == get_navbar_items(data.value, 0)
             IN  IF flatten_raises(items)
                 THEN [kind |-> "raised", error |-> "TypeError", flattened |-> TRUE]
                 ELSE [kind |-> "returned", flattened |-> TRUE,
                       value |-> update_url(flatten_items(items), slug)]

\* extract_navbar_links: get_data, get_items and
\* process_items in turn; flattened tells whether flatten_items was
\* reached.
extract_navbar_links(html_content, slug) ==
    LET data == get_quick_launch_data(html_content.scripts)
    IN  IF data.kind = "raised"
        THEN [kind |-> "raised", error |-> data.error, flattened |-> FALSE]
        ELSE LET items == get_navbar_items(data.value, 0)
             IN  IF flatten_raises(items)
                 THEN [kind |-> "raised", error |-> "TypeError", flattened |-> TRUE]
                 ELSE [kind |-> "returned", flattened |-> TRUE,
                       value |-> update_url(flatten_items(items), slug)]

\* save_navbar_links: the content of navbar_links.json.
navbar_data(items) ==
    [kind |-> "json", run |-> "this",
     items |-> [ i \in DOMAIN items |->
                   [ title |-> items[i].title,
                     slug |-> items[i].slug,
                     url |-> items[i].url,
                     should_be_scraped |-> items[i].should_be_scraped,
                     level |-> items[i].level ] ]]

\* Variant: a page file that exists is skipped even when force is set.
skip_existing_forced(files, output_path, force) == output_path \in DOMAIN files

\* output_path.exists() and not force
skip_existing(files, output_path, force) ==
    output_path \in DOMAIN files /\ ~force

\* The script elements of the index page the site serves: a payload with
\* three pages, one with a single page, one whose node has a titleless child,
\* one without the key, and a page without the marker.
SiteDocs ==
    { <<PayloadScript(Json.site_navigation)>>, <<PayloadScript(Json.one_node)>>,
      <<PayloadScript(Json.titleless_child)>>, <<PayloadScript(Json.no_key)>>,
      <<"<script>var a = 1;</script>">> }

\* What an earlier run for the site can have left: nothing, or the index page
\* and the navigation file with any of the page files.
EarlierFiles ==
    LET
        \* A file left by an earlier run.
        EarlierFile == [kind |-> "site", url |-> "", scripts |-> <<>>, run |-> "earlier"]
    IN
        { <<>> } \cup
        { [ p \in {IndexFile(RunSlug), NavbarLinksFile(RunSlug)} \cup F |-> EarlierFile ] :
            F \in SUBSET { PageFile(RunSlug, "about.aspx.html"),
                           PageFile(RunSlug, "team.aspx.html") } }

InitScrape ==
    /\ sr_caller \in {"scrape-site", "all-sites"}
    /\ sr_force \in BOOLEAN
    /\ sr_site_doc \in SiteDocs
    /\ sr_files \in EarlierFiles
    /\ sr_dirs = IF sr_files = <<>> THEN {}
                 ELSE create_output_directories({}, RunSlug)
    /\ sr_written = <<>>
    /\ sr_requests = <<>>
    /\ sr_html = BlankPage
    /\ sr_flattened = FALSE
    /\ sr_navbar = <<>>
    /\ sr_worklist = <<>>
    /\ sr_i = 0
    /\ sr_raised = "none"
    /\ sr_pc = "start"
    /\ OthersIdle("sr")

\* Where the run stands after an exception: scrape-site.py raises it again,
\* scrape_site_internal returns False.
Failed == IF sr_caller = "scrape-site" THEN "raised" ELSE "returned_false"

CreateOutputDirectories ==
    /\ sr_pc = "start"
    /\ sr_dirs' = create_output_directories(sr_dirs, RunSlug)
    /\ sr_pc' = "directories"
    /\ UNCHANGED <<sr_caller, sr_force, sr_site_doc, sr_files, sr_written,
                   sr_requests, sr_html, sr_flattened, sr_navbar, sr_worklist,
                   sr_i, sr_raised>>
    /\ UNCHANGED <<nav_vars, sp_vars, fn_vars, ql_vars, sm_vars, bt_vars>>

\* scrape_index_page: handle_authentication goes to the site url once and
\* may wait for the user; page.content() is then written to index.html.
ScrapeIndexPage ==
    /\ sr_pc = "directories"
    /\ sr_requests' = Append(sr_requests, SiteUrl(RunSlug))
    /\ \E o \in GotoOutcomes :
          IF o = "error"
          THEN /\ sr_raised' = "Error"
               /\ sr_pc' = Failed
               /\ UNCHANGED <<sr_files, sr_written, sr_html>>
          ELSE /\ sr_html' = Content(o, SiteUrl(RunSlug), sr_site_doc)
               /\ sr_files' = [ p \in DOMAIN sr_files \cup {IndexFile(RunSlug)} |->
                                  IF p = IndexFile(RunSlug)
                                  THEN Content(o, SiteUrl(RunSlug), sr_site_doc)
                                  ELSE sr_files[p] ]
               /\ sr_written' = Append(sr_written, IndexFile(RunSlug))
               /\ sr_pc' = "index"
               /\ UNCHANGED sr_raised
    /\ UNCHANGED <<sr_caller, sr_force, sr_site_doc, sr_dirs, sr_flattened,
                   sr_navbar, sr_worklist, sr_i>>
    /\ UNCHANGED <<nav_vars, sp_vars, fn_vars, ql_vars, sm_vars, bt_vars>>

ExtractNavbarLinks ==
    /\ sr_pc = "index"
    /\ LET r == extract_navbar_links(sr_html, RunSlug)
       IN  /\ sr_flattened' = r.flattened
           /\ IF r.kind = "raised"
              THEN /\ sr_raised' = r.error
                   /\ sr_pc' = Failed
                   /\ UNCHANGED sr_navbar
              ELSE /\ sr_navbar' = r.value
                   /\ sr_pc' = "extracted"
                   /\ UNCHANGED sr_raised
    /\ UNCHANGED <<sr_caller, sr_force, sr_site_doc, sr_dirs, sr_files,
                   sr_written, sr_requests, sr_html, sr_worklist, sr_i>>
    /\ UNCHANGED <<nav_vars, sp_vars, fn_vars, ql_vars, sm_vars, bt_vars>>

SaveNavbarLinks ==
    /\ sr_pc = "extracted"
    /\ sr_files' = [ p \in DOMAIN sr_files \cup {NavbarLinksFile(RunSlug)} |->
                       IF p = NavbarLinksFile(RunSlug) THEN navbar_data(sr_navbar)
                       ELSE sr_files[p] ]
    /\ sr_written' = Append(sr_written, NavbarLinksFile(RunSlug))
    /\ sr_pc' = "saved"
    /\ UNCHANGED <<sr_caller, sr_force, sr_site_doc, sr_dirs, sr_requests,
                   sr_html, sr_flattened, sr_navbar, sr_worklist, sr_i, sr_raised>>
    /\ UNCHANGED <<nav_vars, sp_vars, fn_vars, ql_vars, sm_vars, bt_vars>>

\* scrape_individual_pages, up to its loop.
ScrapeIndividualPages ==
    /\ sr_pc = "saved"
    /\ sr_worklist' = get_pages_to_scrape(sr_navbar)
    /\ sr_i' = 1
    /\ sr_pc' = "pages"
    /\ UNCHANGED <<sr_caller, sr_force, sr_site_doc, sr_dirs, sr_files,
                   sr_written, sr_requests, sr_html, sr_flattened, sr_navbar,
                   sr_raised>>
    /\ UNCHANGED <<nav_vars, sp_vars, fn_vars, ql_vars, sm_vars, bt_vars>>

\* Variant: an error while a page is retrieved ends the run.
ScrapePagePropagating ==
    /\ sr_pc = "pages"
    /\ sr_i <= Len(sr_worklist)
    /\ LET url == sr_worklist[sr_i].url
           output_path == PageFile(RunSlug, get_page_filename(url))
       IN  IF ~Truthy(url) \/ skip_existing(sr_files, output_path, sr_force)
           THEN /\ UNCHANGED <<sr_files, sr_written, sr_requests, sr_raised, sr_pc>>
                /\ sr_i' = sr_i + 1
           ELSE /\ sr_requests' = Append(sr_requests, url)
                /\ \E o \in GotoOutcomes :
                      IF o = "error"
                      THEN /\ UNCHANGED <<sr_files, sr_written, sr_i>>
                           /\ sr_raised' = "Exception"
                           /\ sr_pc' = Failed
                      ELSE /\ sr_files' =
                                [ p \in DOMAIN sr_files \cup {output_path} |->
                                    IF p = output_path THEN Content(o, url, <<>>)
                                    ELSE sr_files[p] ]
                           /\ sr_written' = Append(sr_written, output_path)
                           /\ sr_i' = sr_i + 1
                           /\ UNCHANGED <<sr_raised, sr_pc>>
    /\ UNCHANGED <<sr_caller, sr_force, sr_site_doc, sr_dirs, sr_html,
                   sr_flattened, sr_navbar, sr_worklist>>
    /\ UNCHANGED <<nav_vars, sp_vars, fn_vars, ql_vars, sm_vars, bt_vars>>

\* One pass of the loop of scrape_individual_pages.
ScrapePage ==
    /\ sr_pc = "pages"
    /\ sr_i <= Len(sr_worklist)
    /\ LET url == sr_worklist[sr_i].url
           output_path == PageFile(RunSlug, get_page_filename(url))
       IN  IF ~Truthy(url) \/ skip_existing(sr_files, output_path, sr_force)
           THEN UNCHANGED <<sr_files, sr_written, sr_requests>>
           ELSE /\ sr_requests' = Append(sr_requests, url)
                /\ \E o \in GotoOutcomes :
                      IF o = "error"
                      THEN UNCHANGED <<sr_files, sr_written>>
                      ELSE /\ sr_files' =
                                [ p \in DOMAIN sr_files \cup {output_path} |->
                                    IF p = output_path THEN Content(o, url, <<>>)
                                    ELSE sr_files[p] ]
                           /\ sr_written' = Append(sr_written, output_path)
    /\ sr_i' = sr_i + 1
    /\ UNCHANGED <<sr_caller, sr_force, sr_site_doc, sr_dirs, sr_html,
                   sr_flattened, sr_navbar, sr_worklist, sr_raised, sr_pc>>
    /\ UNCHANGED <<nav_vars, sp_vars, fn_vars, ql_vars, sm_vars, bt_vars>>

\* The loop is over: the run has completed.
Completed ==
    /\ sr_pc = "pages"
    /\ sr_i > Len(sr_worklist)
    /\ sr_pc' = "completed"
    /\ UNCHANGED <<sr_caller, sr_force, sr_site_doc, sr_dirs, sr_files,
                   sr_written, sr_requests, sr_html, sr_flattened, sr_navbar,
                   sr_worklist, sr_i, sr_raised>>
    /\ UNCHANGED <<nav_vars, sp_vars, fn_vars, ql_vars, sm_vars, bt_vars>>

NextScrape ==
    \/ CreateOutputDirectories
    \/ ScrapeIndexPage
    \/ ExtractNavbarLinks
    \/ SaveNavbarLinks
    \/ ScrapeIndividualPages
    \/ ScrapePage
    \/ Completed

SpecScrape == InitScrape /\ [][NextScrape]_vars

\* Navigation extraction has failed for the index page the run retrieved.
ExtractionFails ==
    /\ sr_html.kind # "blank"
    /\ get_quick_launch_data(sr_html.scripts).kind = "raised"

(* C12: in a per-site scrape run, when navigation extraction fails nothing  *)
(* downstream happens: flatten_items is not called, navbar_links.json is    *)
(* not written, no individual page is requested, and the run ends there.    *)
C12_NothingDownstream ==
    ExtractionFails =>
        /\ sr_pc \in {"index", "raised", "returned_false"}
        /\ ~sr_flattened
        /\ \A k \in DOMAIN sr_written :
              sr_written[k] # "output/site-data/acme/navbar_links.json"
        /\ sr_requests = << "https://uob.sharepoint.com/sites/acme" >>

\* A batch run whose extraction raised: index.html is the only file written
\* and the navbar_links.json of the earlier run is still there.
C12_Witness ==
    /\ sr_pc = "returned_false"
    /\ sr_raised = "AssertionError"
    /\ sr_html.kind = "site"
    /\ sr_written = << "output/site-data/acme/index.html" >>
    /\ "output/site-data/acme/navbar_links.json" \in DOMAIN sr_files
    /\ sr_files["output/site-data/acme/navbar_links.json"].run = "earlier"

(* C18: in scrape_individual_pages the url of a worklist entry is requested *)
(* if and only if force is set or no file with the entry's file name exists *)
(* when the entry is processed; without force no existing file is           *)
(* overwritten, and with force every worklist entry is requested.           *)
C18_RequestIffForceOrAbsent ==
    [][ /\ (sr_pc = "pages" /\ sr_i' = sr_i + 1) =>
              LET url == sr_worklist[sr_i].url
                  path == "output/site-data/acme/pages/" \o get_page_filename(url)
              IN  /\ (sr_requests' = Append(sr_requests, url)) <=>
                         (sr_force \/ path \notin DOMAIN sr_files)
                  /\ (sr_requests' # Append(sr_requests, url)) =>
                         sr_requests' = sr_requests
                  /\ ~sr_force =>
                         \A p \in DOMAIN sr_files :
                             p \in DOMAIN sr_files' /\ sr_files'[p] = sr_files[p]
        /\ (sr_pc' = "completed" /\ sr_force) =>
              SubSeq(sr_requests', 2, Len(sr_requests')) =
                  [ i \in DOMAIN sr_worklist |-> sr_worklist[i].url ] ]_vars

\* Without force and with no page file at the start, the second entry of the
\* file name about.aspx.html was skipped: the first one had just written it.
C18_Witness ==
    /\ sr_pc = "completed"
    /\ ~sr_force
    /\ Len(sr_worklist) = 3
    /\ sr_requests = << "https://uob.sharepoint.com/sites/acme",
                        "https://uob.sharepoint.com/sites/acme/about.aspx",
                        "https://uob.sharepoint.com/sites/acme/team.aspx" >>
    /\ sr_written = << "output/site-data/acme/index.html",
                       "output/site-data/acme/navbar_links.json",
                       "output/site-data/acme/pages/about.aspx.html",
                       "output/site-data/acme/pages/team.aspx.html" >>

(* C20: retrieval retries on an expired session, so the content stored for  *)
(* the index page or for a worklist entry is never the content of an        *)
(* authentication page.                                                     *)
C20_NoAuthPageStored ==
    \A p \in DOMAIN sr_files : sr_files[p].kind # "auth"

-----------------------------------------------------------------------------
(* all-sites.py: main, process_site, scrape_site_internal, run_command *)

\* scrape_site_internal with the browser of main; its steps are those of the
\* per-site run, told here by their effects. The run ends in one of: the index
\* page cannot be retrieved ("index_failed"), the navigation cannot be
\* extracted from it ("extraction_failed"), the site is scraped ("completed").
scrape_site_internal(fs, slug, browser, dry_run, outcome) ==
    IF dry_run
    THEN [ok |-> TRUE, written |-> {}, requests |-> <<>>]
    ELSE IF browser = "none"
    THEN [ok |-> FALSE, written |-> {}, requests |-> <<>>]
    ELSE LET dirs == create_output_directories({}, slug)
         IN  CASE outcome = "index_failed" ->
                    [ok |-> FALSE, written |-> dirs, requests |-> <<SiteUrl(slug)>>]
               [] outcome = "extraction_failed" ->
                    [ok |-> FALSE, written |-> dirs \cup {IndexFile(slug)},
                     requests |-> <<SiteUrl(slug)>>]
               [] outcome = "completed" ->
                    [ok |-> TRUE,
                     written |-> dirs \cup {IndexFile(slug), NavbarLinksFile(slug),
                                            PageFile(slug, "about.aspx.html")},
                     requests |-> <<SiteUrl(slug), SiteUrl(slug) \o "/about.aspx">>]

\* Variant: the command is run in a dry run too.
run_command_always(cmd, dry_run, outcome) ==
    [ok |-> outcome = "success", ran |-> <<cmd>>, raised |-> FALSE]

\* run_command; outcome is how subprocess.run ends: "success",
\* "CalledProcessError", or "OSError" when the program cannot be started,
\* which run_command does not catch.
run_command(cmd, dry_run, outcome) ==
    IF dry_run THEN [ok |-> TRUE, ran |-> <<>>, raised |-> FALSE]
    ELSE IF outcome = "OSError" THEN [ok |-> FALSE, ran |-> <<>>, raised |-> TRUE]
    ELSE [ok |-> outcome = "success", ran |-> <<cmd>>, raised |-> FALSE]

\* The generate-sitemap.py command line of process_site.
GenerateCommand(slug, dry_run) ==
    <<"uv", "run", "python", "scripts/generate-sitemap.py", "--site", slug>>
        \o (IF dry_run THEN <<"--dry-run">> ELSE <<>>)

\* Variant: the generate step follows a failed scrape step too.
process_site_generate_anyway(fs, slug, force_option, dry_run, browser, scrape_outcome, command_outcome) ==
    LET scrape == IF should_process_site(fs, slug, force_option, "scrape")
                  THEN scrape_site_internal(fs, slug, browser, dry_run, scrape_outcome)
                  ELSE [ok |-> TRUE, written |-> {}, requests |-> <<>>]
        fs1 == fs \cup scrape.written
        generate == IF should_process_site(fs1, slug, force_option, "generate")
                    THEN run_command(GenerateCommand(slug, dry_run), dry_run,
                                     command_outcome)
                    ELSE [ok |-> TRUE, ran |-> <<>>, raised |-> FALSE]
        sitemap == IF generate.ran # <<>> /\ generate.ok
                   THEN {"output", SitemapFile(slug)} ELSE {}
    IN  [raised |-> generate.raised,
         results |-> [scrape |-> scrape.ok, generate |-> generate.ok],
         written |-> scrape.written \cup sitemap,
         requests |-> scrape.requests,
         commands |-> generate.ran]

\* process_site: the scrape step, then the generate step decided on the disk
\* as the scrape step left it. raised: an exception leaves process_site.
process_site(fs, slug, force_option, dry_run, browser, scrape_outcome, command_outcome) ==
    LET scrape == IF should_process_site(fs, slug, force_option, "scrape")
                  THEN scrape_site_internal(fs, slug, browser, dry_run, scrape_outcome)
                  ELSE [ok |-> TRUE, written |-> {}, requests |-> <<>>]
        fs1 == fs \cup scrape.written
    IN  IF ~scrape.ok /\ ~dry_run
        THEN [raised |-> FALSE,
              results |-> [scrape |-> FALSE, generate |-> FALSE],
              written |-> scrape.written, requests |-> scrape.requests,
              commands |-> <<>>]
        ELSE LET generate ==
                     IF should_process_site(fs1, slug, force_option, "generate")
                     THEN run_command(GenerateCommand(slug, dry_run), dry_run,
                                      command_outcome)
                     ELSE [ok |-> TRUE, ran |-> <<>>, raised |-> FALSE]
                 sitemap == IF generate.ran # <<>> /\ generate.ok
                            THEN {"output", SitemapFile(slug)} ELSE {}
             IN  [raised |-> generate.raised,
                  results |-> [scrape |-> scrape.ok, generate |-> generate.ok],
                  written |-> scrape.written \cup sitemap,
                  requests |-> scrape.requests,
                  commands |-> generate.ran]

\* Variant: a pass whose process_site raises leaves nothing in all_results.
record_results_unless_raised(results, site, r) ==
    IF r.raised THEN results
    ELSE Append(results, [site |-> site, raised |-> FALSE,
                          scrape |-> r.results.scrape, generate |-> r.results.generate])

\* The try statement in the loop of main: all_results[site] is what
\* process_site returned, or both steps failed when it raised.
record_results(results, site, r) ==
    Append(results,
           IF r.raised
           THEN [site |-> site, raised |-> TRUE, scrape |-> FALSE, generate |-> FALSE]
           ELSE [site |-> site, raised |-> FALSE,
                 scrape |-> r.results.scrape, generate |-> r.results.generate])

\* Number of sites in SITES.txt.
MaxSites == 2

\* What earlier runs can have left for a site: nothing, its sitemap alone,
\* its data without the sitemap, or both.
BatchFiles(slug) ==
    { {},
      {"output", SitemapFile(slug)},
      create_output_directories({}, slug) \cup {IndexFile(slug), NavbarLinksFile(slug)},
      create_output_directories({}, slug)
          \cup {IndexFile(slug), NavbarLinksFile(slug), SitemapFile(slug)} }

InitBatch ==
    /\ bt_sites \in UNION { [1..n -> Slugs] : n \in 1..MaxSites }
    /\ bt_dry_run \in BOOLEAN
    /\ bt_force \in ForceOptions
    /\ bt_fs \in { a \cup b : a \in BatchFiles("acme"), b \in BatchFiles("other") }
    /\ bt_browser = "none"
    /\ bt_requests = <<>>
    /\ bt_written = {}
    /\ bt_commands = <<>>
    /\ bt_results = <<>>
    /\ bt_i = 1
    /\ bt_run = "first"
    /\ bt_earlier = <<>>
    /\ bt_pc = "start"
    /\ OthersIdle("bt")

\* main, up to the loop: the browser is set up unless the run is a dry run.
SetUpBrowser ==
    /\ bt_pc = "start"
    /\ bt_browser' = IF bt_dry_run THEN "none" ELSE "launched"
    /\ bt_pc' = "sites"
    /\ UNCHANGED <<bt_sites, bt_dry_run, bt_force, bt_fs, bt_requests,
                   bt_written, bt_commands, bt_results, bt_i, bt_run, bt_earlier>>
    /\ UNCHANGED <<nav_vars, sp_vars, fn_vars, ql_vars, sm_vars, sr_vars>>

\* One pass of the loop of main: process_site for the next site.
ProcessSite ==
    /\ bt_pc = "sites"
    /\ bt_i <= Len(bt_sites)
    /\ \E so \in {"index_failed", "extraction_failed", "completed"},
          co \in {"success", "CalledProcessError", "OSError"} :
          LET r == process_site(bt_fs, bt_sites[bt_i], bt_force,
                                bt_dry_run, bt_browser, so, co)
          IN  /\ bt_fs' = bt_fs \cup r.written
              /\ bt_written' = bt_written \cup r.written
              /\ bt_requests' = bt_requests \o r.requests
              /\ bt_commands' = bt_commands \o r.commands
              /\ bt_results' = record_results(bt_results, bt_sites[bt_i], r)
    /\ bt_i' = bt_i + 1
    /\ UNCHANGED <<bt_sites, bt_dry_run, bt_force, bt_browser, bt_run, bt_earlier, bt_pc>>
    /\ UNCHANGED <<nav_vars, sp_vars, fn_vars, ql_vars, sm_vars, sr_vars>>

\* main, after the loop: the browser is closed if there is one.
CloseBrowser ==
    /\ bt_pc = "sites"
    /\ bt_i > Len(bt_sites)
    /\ bt_browser' = IF bt_browser = "launched" THEN "closed" ELSE bt_browser
    /\ bt_pc' = "done"
    /\ UNCHANGED <<bt_sites, bt_dry_run, bt_force, bt_fs, bt_requests,
                   bt_written, bt_commands, bt_results, bt_i, bt_run, bt_earlier>>
    /\ UNCHANGED <<nav_vars, sp_vars, fn_vars, ql_vars, sm_vars, sr_vars>>

\* all-sites.py is run once more, with the same arguments and SITES.txt, on
\* the disk as the first run left it.
RunAgain ==
    /\ bt_pc = "done"
    /\ bt_run = "first"
    /\ bt_run' = "later"
    /\ bt_earlier' = bt_results
    /\ bt_browser' = "none"
    /\ bt_requests' = <<>>
    /\ bt_written' = {}
    /\ bt_commands' = <<>>
    /\ bt_results' = <<>>
    /\ bt_i' = 1
    /\ bt_pc' = "start"
    /\ UNCHANGED <<bt_sites, bt_dry_run, bt_force, bt_fs>>
    /\ UNCHANGED <<nav_vars, sp_vars, fn_vars, ql_vars, sm_vars, sr_vars>>

NextBatch == SetUpBrowser \/ ProcessSite \/ CloseBrowser \/ RunAgain

SpecBatch == InitBatch /\ [][NextBatch]_vars

(* C17: a dry run of all-sites has no effects: whatever the sites list, the *)
(* force option and the data on disk, no browser is launched, no page is    *)
(* requested, no directory or file is created or written, and no           *)
(* sub-command is executed.                                                 *)
C17_DryRunNoEffects ==
    bt_dry_run =>
        /\ bt_browser = "none"
        /\ bt_requests = <<>>
        /\ bt_written = {}
        /\ bt_commands = <<>>

\* A dry run over two sites with both steps forced has ended: both steps are
\* reported as done for both sites and nothing has happened.
C17_Witness ==
    /\ bt_pc = "done"
    /\ bt_dry_run
    /\ bt_force = "all"
    /\ Len(bt_results) = 2
    /\ \A k \in 1..2 : bt_results[k].scrape /\ bt_results[k].generate
    /\ bt_commands = <<>>
    /\ bt_browser = "none"

\* The entry a pass of the loop has just put in all_results.
LastResult == bt_results'[Len(bt_results')]

(* C21: in a run that is not a dry run, process_site runs the scrape step    *)
(* and then the generate step, and generation is attempted only if the      *)
(* scrape step succeeded or was skipped: when scraping is attempted and     *)
(* fails it returns scrape false and generate false without running         *)
(* generation; a step that is skipped is reported as successful.            *)
C21_ScrapeThenGenerate ==
    [][ (/\ bt_pc = "sites"
         /\ bt_i' = bt_i + 1
         /\ ~bt_dry_run
         /\ ~LastResult.raised) =>
        LET site == bt_sites[bt_i]
            scrape_attempted == should_process_site(bt_fs, site, bt_force, "scrape")
            generate_attempted == bt_commands' # bt_commands
        IN  /\ ~scrape_attempted => LastResult.scrape /\ bt_requests' = bt_requests
            /\ scrape_attempted => bt_requests' # bt_requests
            /\ ~LastResult.scrape => ~LastResult.generate /\ ~generate_attempted
            /\ generate_attempted => LastResult.scrape
            /\ generate_attempted =>
                  should_process_site(bt_fs \cup (bt_written' \ {SitemapFile(site), "output"}),
                                      site, bt_force, "generate")
            /\ (LastResult.scrape /\ ~generate_attempted) => LastResult.generate
            /\ (scrape_attempted /\ LastResult.scrape /\ SitemapFile(site) \notin bt_fs)
                  => generate_attempted
      ]_vars

\* A run that is not a dry run has ended: the scrape step of the first site
\* was attempted and failed, no command was run for it, and both steps of the
\* second site were skipped and are reported as successful.
C21_Witness ==
    /\ bt_pc = "done"
    /\ bt_run = "first"
    /\ ~bt_dry_run
    /\ bt_force = None
    /\ bt_sites = <<"acme", "other">>
    /\ bt_results = << [site |-> "acme", raised |-> FALSE, scrape |-> FALSE, generate |-> FALSE],
                       [site |-> "other", raised |-> FALSE, scrape |-> TRUE, generate |-> TRUE] >>
    /\ bt_requests = <<SiteUrl("acme")>>
    /\ bt_commands = <<>>

(* C29: in the all-sites batch every site listed in SITES.txt is processed   *)
(* exactly once, in file order, whatever happened to earlier sites: a       *)
(* failed or raising process_site never prevents the following sites from   *)
(* being processed, and when the loop ends all_results holds a result for   *)
(* every listed site.                                                       *)
C29_EverySiteProcessed ==
    bt_pc \in {"sites", "done"} =>
        /\ Len(bt_results) = bt_i - 1
        /\ Len(bt_results) <= Len(bt_sites)
        /\ \A k \in 1..Len(bt_results) : bt_results[k].site = bt_sites[k]
        /\ bt_pc = "done" =>
              /\ Len(bt_results) = Len(bt_sites)
              /\ { bt_results[k].site : k \in 1..Len(bt_results) }
                     = { bt_sites[k] : k \in 1..Len(bt_sites) }

\* The loop has ended: process_site raised for the first site after it had
\* scraped it, the scrape step failed for the second, and all_results has an
\* entry for each pass.
C29_Witness ==
    /\ bt_pc = "done"
    /\ ~bt_dry_run
    /\ Len(bt_sites) >= 2
    /\ bt_results[1].raised
    /\ PageFile(bt_sites[1], "about.aspx.html") \in bt_written
    /\ ~bt_results[2].raised /\ ~bt_results[2].scrape
    /\ Len(bt_results) = Len(bt_sites)

(* C27: a failed scrape is retried: if the scrape step for a site fails      *)
(* during an all-sites run without --force, at whatever point of the step   *)
(* the failure occurs, then a later all-sites run without --force attempts  *)
(* the scrape step for that site again rather than skipping it.             *)
C27_FailedScrapeRetried ==
    (/\ bt_run = "later"
     /\ ~bt_dry_run
     /\ bt_force = None
     /\ bt_pc = "done") =>
        \A k \in 1..Len(bt_earlier) :
            (/\ ~bt_earlier[k].raised
             /\ ~bt_earlier[k].scrape
             /\ \A m \in (k + 1)..Len(bt_earlier) : bt_earlier[m].site # bt_earlier[k].site)
                => \E j \in 1..Len(bt_requests) : bt_requests[j] = SiteUrl(bt_earlier[k].site)

(* C22: for every header list get_headers can return, any sequence of h1,   *)
(* h2, h3 and h4 elements, convert_headers succeeds and returns one line    *)
(* per header, so render_page succeeds on any page that has an article      *)
(* element.                                                                 *)
C22_HeadersAlwaysConvert ==
    sm_pc = "rendered" =>
        \A i \in DOMAIN sm_rendered :
            LET item == sm_rendered[i]
                filename == get_page_filename_from_url(item.url)
            IN  (/\ item.url # None /\ item.url # ""
                 /\ filename \in DOMAIN sm_pages
                 /\ sm_pages[filename].has_article)
                => /\ convert_headers(sm_pages[filename].headers).kind = "returned"
                   /\ ~StartsWith(item.page_render, "Error rendering page: ")

(* C23: for every non-empty url, get_page_filename_from_url of the sitemap  *)
(* generator returns the file name get_page_filename of the scraper        *)
(* returns, so the generator looks up the file the scraper wrote for that  *)
(* url; for a null or empty url the generator returns "index.html".        *)
C23_SameFilename ==
    fn_pc = "looked_up" =>
        IF fn_url = None \/ fn_url = ""
        THEN fn_lookup = "index.html"
        ELSE fn_lookup = fn_name

\* Both scripts have named the file of a url whose last segment has unsafe
\* characters and no ".html" ending, after which a query follows.
C23_Witness ==
    /\ fn_pc = "looked_up"
    /\ fn_url = "https://uob.sharepoint.com/sites/acme/q\"|*x?q=/a/b.html"
    /\ fn_name = "q___x.html"
    /\ fn_lookup = "q___x.html"

(* C24: inclusion is scoped to the target site collection: an entry with    *)
(* scrape true after update_url with target slug S has a base_url under     *)
(* site S itself, the path segment after "/sites/" being exactly S, never   *)
(* under a different site whose slug begins with the characters of S.       *)
C24_TargetSiteOnly ==
    Resolved =>
        \A i \in DOMAIN processed_items :
            processed_items[i].scrape = TRUE =>
                \/ processed_items[i].base_url = "/sites/" \o site_slug
                \/ StartsWith(processed_items[i].base_url, "/sites/" \o site_slug \o "/")

(* C25: after process_navbar_items every entry with scrape true has a       *)
(* non-null url equal to the site root followed by its base_url; hence on a *)
(* freshly resolved list get_pages_to_scrape returns exactly the entries    *)
(* with scrape true, and scrape and should_be_scraped are equal on every    *)
(* entry.                                                                   *)
C25_ResolvedListConsistent ==
    /\ Resolved =>
          \A i \in DOMAIN processed_items :
              LET e == processed_items[i]
              IN  /\ e.scrape = e.should_be_scraped
                  /\ e.scrape = TRUE =>
                        /\ e.url # None
                        /\ e.base_url # None
                        /\ e.url = SITE_ROOT \o e.base_url
    /\ pc = "selected" =>
          IsSubSequence(pages_to_scrape, processed_items,
                        { i \in DOMAIN processed_items : processed_items[i].scrape = TRUE })

\* The worklist of a resolved list holds its one entry marked for scraping
\* and leaves out another entry that has a url.
C25_Witness ==
    /\ pc = "selected"
    /\ Len(processed_items) = 2
    /\ Len(pages_to_scrape) = 1
    /\ processed_items[1].url = "https://uob.sharepoint.com/sites/acme/news.aspx"
    /\ processed_items[2].scrape = TRUE
    /\ pages_to_scrape[1] = processed_items[2]
    /\ pages_to_scrape[1].url = SITE_ROOT \o processed_items[2].base_url

(* C26: distinct urls of the retrieval worklist are stored in distinct      *)
(* files: after a run of scrape_individual_pages in which no retrieval      *)
(* fails, the file for each worklist entry holds the content retrieved from *)
(* that entry's own url, with or without force.                             *)
C26_OwnContentPerEntry ==
    (/\ sr_pc = "completed"
     /\ Len(sr_written) - 2 = Len(sr_requests) - 1) =>
        \A i \in DOMAIN sr_worklist :
            LET path == PageFile(RunSlug, get_page_filename(sr_worklist[i].url))
            IN  /\ path \in DOMAIN sr_files
                /\ (sr_files[path].run = "this" /\ sr_files[path].kind = "site")
                      => sr_files[path].url = sr_worklist[i].url

(* C30: in scrape_individual_pages an error while one worklist entry is     *)
(* retrieved is absorbed: the loop continues, every later worklist entry is *)
(* still processed in list order, and the error never reaches the caller.   *)
C30_PageErrorAbsorbed ==
    [][ /\ (sr_pc = "pages" /\ sr_i <= Len(sr_worklist)) =>
              /\ sr_pc' = "pages"
              /\ sr_i' = sr_i + 1
              /\ sr_raised' = "none"
              /\ sr_worklist' = sr_worklist
              /\ (sr_requests' # sr_requests /\ sr_written' = sr_written)
                    => sr_files' = sr_files
        /\ (sr_pc = "pages" /\ sr_pc' # "pages") =>
              /\ sr_pc' = "completed"
              /\ sr_i = Len(sr_worklist) + 1
              /\ sr_raised' = "none" ]_vars

\* With force, the retrieval of the first two worklist entries failed and
\* the third entry was retrieved and stored after them.
C30_Witness ==
    /\ sr_pc = "completed"
    /\ sr_force
    /\ Len(sr_worklist) = 3
    /\ sr_requests = << "https://uob.sharepoint.com/sites/acme",
                        "https://uob.sharepoint.com/sites/acme/about.aspx",
                        "https://uob.sharepoint.com/sites/acme/old/about.aspx",
                        "https://uob.sharepoint.com/sites/acme/team.aspx" >>
    /\ sr_written = << "output/site-data/acme/index.html",
                       "output/site-data/acme/navbar_links.json",
                       "output/site-data/acme/pages/team.aspx.html" >>
    /\ sr_raised = "none"

(* C28: the sitemap generator attaches stored page content to a navbar      *)
(* entry only if that entry was marked should_be_scraped when the          *)
(* navigation was saved; an entry that was not eligible for retrieval      *)
(* never gets page_render built from a stored page file.                   *)
C28_ContentOnlyIfScraped ==
    sm_pc \in {"rendered", "generated"} =>
        \A i \in DOMAIN sm_rendered :
            (/\ sm_rendered[i].page_render # None
             /\ sm_rendered[i].page_render # "Page content not available")
                => sm_navbar[i].should_be_scraped

====
